---- MODULE Spec2Model ----
(***************************************************************************)
(* A model of the Notch agent's session subsystem (notch/agent/session.py,  *)
(* notch/agent/controller.py, notch/agent/credential.py) and of its LRU     *)
(* cache (notch/agent/lru.py).                                              *)
(*                                                                          *)
(* Tasks are cooperative: a task runs without interruption until it calls   *)
(* into the device (device.connect, device.disconnect, a device method) or  *)
(* waits for the session lock.  Each device call is therefore two steps,    *)
(* the call and its return, and every other task may run in between.        *)
(***************************************************************************)
EXTENDS Integers, Sequences, FiniteSets, TLC

VARIABLES
    session,        \* the Session object's fields
    device,         \* the Device object's fields the session depends on
    exclusive,      \* Session._exclusive: the task holding the lock, or NoTask
    now,            \* the wall clock, time.time()
    pc,             \* per task: where the task is in the operation it runs
    loc,            \* per task: the locals of the operation it runs
    calls,          \* per task: the device calls and stores of its operation
    outcome,        \* per task: how its last operation ended
    sweeper,        \* where Controller._session_idle_check is
    auth_credential, \* the credential of the last successful device.connect
    waiting,        \* the tasks at self._exclusive.acquire(), oldest call first
    heap,           \* LruDict._heap: a list of HeapItems kept as a heapq
    data,           \* LruDict.data: key -> value, Absent when not cached
    maximum_age,    \* LruDict.maximum_age: whether entries age
    timers,         \* per key: the armed age timers (eventlet.spawn_after)
    populate_callback, \* LruDict._populate_callback: which callback is set
    lru_now,        \* time.time() as HeapItem.__init__ reads it
    vetoes,         \* how many expiries the expire callback has stopped
    lru_last        \* the last LruDict operation: its kind, how it ended, the
                    \* key and value of a rewrite, whether an insert's
                    \* expiry was refused
VARIABLES
    request,        \* per client Request: the object's attributes
    gt,             \* per client Request: the green thread that runs it
    peer,           \* per client Request: whether the agent will answer it
    caller,         \* the green thread that uses the Connection
    called          \* per client Request: the calls of its user callback
VARIABLES
    lb              \* the LoadBalancingTransport, its policy and its backends
VARIABLES
    transport,      \* a DeviceTransport and the command it executes
    iosdev,         \* an IosDevice and the connect call it executes
    login,          \* IosDevice._connect: the dialogue after the transport
    controller      \* the Controller and the request it serves
VARIABLES
    creds,          \* a Credentials store and the last lookup made in it
    rpc,            \* an error on its way from the agent to the client
    pool,           \* the GreenPool of a client Connection and its size
    dirtylru,       \* the LruDict of src/lru.py, the one with a dirty flag
    serving         \* the handler threads of the agent and the session cache

svars == << session, device, exclusive, now, pc, loc, calls, outcome,
            sweeper, auth_credential, waiting >>

lvars == << heap, data, maximum_age, timers, populate_callback, lru_now,
            vetoes, lru_last >>

cvars == << request, gt, peer, caller, called >>

\* The device objects.
dvars == << transport, iosdev, login, controller >>

\* The credentials store and the error path of the RPC layer.
avars == << creds, rpc, pool, dirtylru, serving >>

\* What the actions of each part leave alone.
besideSession == << lvars, cvars, lb, dvars, avars >>
besideLru == << svars, cvars, lb, dvars, avars >>
besideClient == << svars, lvars, lb, dvars, avars >>
besideTransport == << svars, lvars, cvars, dvars, avars >>
besideCommand == << svars, lvars, cvars, lb, iosdev, login, controller, avars >>
besideDevice == << svars, lvars, cvars, lb, transport, login, controller, avars >>
besideLogin == << svars, lvars, cvars, lb, transport, iosdev, controller, avars >>
besideController == << svars, cvars, lb, transport, iosdev, login, avars >>

besideCredentials == << svars, lvars, cvars, lb, dvars, rpc, pool, dirtylru,
    serving >>
besideRpc == << svars, lvars, cvars, lb, dvars, creds, pool, dirtylru,
    serving >>
besidePool == << svars, lvars, cvars, lb, dvars, creds, rpc, dirtylru,
    serving >>
besideDirtyLru == << svars, lvars, cvars, lb, dvars, creds, rpc, pool, serving >>
besideServing == << svars, lvars, cvars, lb, dvars, creds, rpc, pool, dirtylru >>

vars == << svars, lvars, cvars, lb, dvars, avars >>

----------------------------------------------------------------------------
(* Bounds *)

\* The clock starts here (time.time() is far past MAX_IDLE_TIME).
StartTime == 1000
\* One Tick of the clock.
TickStep == 1000
\* The clock stops here.
MaxNow == 2100

----------------------------------------------------------------------------
(* Constants of the program *)

\* device.Device.MAX_IDLE_TIME
MAX_IDLE_TIME == 900

\* A timestamp that was never set (None).
NoTime == 0 - 1

NoTask == "NoTask"

\* Session.valid_requests
valid_requests == {"command", "get_config", "set_config", "copy_file",
                   "upload_file", "download_file", "delete_file", "lock",
                   "unlock"}

\* The method names a caller passes to Session.request.
Methods == {"command", "not_a_valid_method_name"}

----------------------------------------------------------------------------
(* Credentials.  A Credential is an object: the model names the object,   *)
(* and Attributes gives the attributes it was built with.  NoCredential is  *)
(* None.                                                                    *)

NoCredential == "None"

CredA == "credA"

\* Another object, built with CredA's attributes.
CredACopy == "credA_copy"

\* An object with another password.
CredB == "credB"

Credentials == {CredA, CredACopy, CredB}

\* Credential.__init__: the attributes of each object.
Attributes(c) ==
    [regexp_string |-> "^xr.*$", username |-> "fred",
     password |-> IF c = CredB THEN "pw2" ELSE "pw1",
     enable_password |-> "None", ssh_private_key |-> "None",
     ssh_private_key_filename |-> "None", auto_enable |-> FALSE,
     connect_method |-> "sshv2"]

\* Credential.__eq__
CredentialEq(a, b) ==
    /\ Attributes(a).regexp_string = Attributes(b).regexp_string
    /\ Attributes(a).username = Attributes(b).username
    /\ Attributes(a).password = Attributes(b).password
    /\ Attributes(a).enable_password = Attributes(b).enable_password
    /\ Attributes(a).ssh_private_key = Attributes(b).ssh_private_key
    /\ Attributes(a).ssh_private_key_filename =
           Attributes(b).ssh_private_key_filename

\* c != self._credential in Session._set_credential.  Credential defines
\* __eq__ and no __ne__, so != compares the two objects' identities.
CredentialNe(a, b) == a # b

----------------------------------------------------------------------------
(* Errors *)

\* What a device method can end with: "ok", an ApiError or another exception.
MethodOutcomes == {"ok", "CommandError", "CommandErrorRetry",
                   "DownloadError", "Exception"}

ApiErrors == {"CommandError", "CommandErrorRetry", "EOFError", "DownloadError"}

\* ApiError.disconnect_on_error
disconnect_on_error(e) == e \in {"CommandError", "CommandErrorRetry"}

\* ApiError.retry: EOFError by default, which no device raises; CommandError
\* when the transport set it on the instance.
retry(e) == e \in {"EOFError", "CommandErrorRetry"}

\* What device.connect can end with.
ConnectOutcomes == {"ok", "ConnectError", "AuthenticationError", "Exception"}

\* What device.disconnect can end with: "Error" is an errors.Error.
DisconnectOutcomes == {"ok", "Error", "Exception"}

----------------------------------------------------------------------------
(* Tasks and the session's state *)

\* The tasks that call the session: each runs one operation at a time.
Tasks == {"r1", "r2"}

NoDevice == "None"

\* Session.__init__
NewSession(dev) ==
    [device |-> dev, credential |-> NoCredential, connected |-> FALSE,
     idle |-> TRUE, time_last_connect |-> NoTime,
     time_last_disconnect |-> NoTime, time_last_response |-> NoTime,
     time_last_request |-> NoTime]

\* Device.__init__
NewDevice == [connected |-> FALSE, current_credential |-> NoCredential]

\* The locals of an operation before it has set any.
\* old and before are not locals of the code: old is the credential the
\* session held when an assignment began, before is the session as it was
\* when connect() or disconnect() was called.
NoLocals ==
    [op |-> "none", method |-> "", c |-> NoCredential,
     try_to_reconnect |-> FALSE, e |-> "", arg |-> NoCredential,
     old |-> NoCredential, before |-> NewSession(NoDevice)]

\* What a task's step works on: the shared state and the task's own.
Ctx(t) ==
    [s |-> session, d |-> device, x |-> exclusive, a |-> auth_credential,
     pc |-> pc[t], out |-> outcome[t], ev |-> calls[t], l |-> loc[t],
     w |-> waiting]

\* The state after task t's step ended in r.
Apply(t, r) ==
    /\ session' = r.s
    /\ device' = r.d
    /\ exclusive' = r.x
    /\ auth_credential' = r.a
    /\ pc' = [pc EXCEPT ![t] = r.pc]
    /\ outcome' = [outcome EXCEPT ![t] = r.out]
    /\ calls' = [calls EXCEPT ![t] = r.ev]
    /\ loc' = [loc EXCEPT ![t] = r.l]
    /\ waiting' = r.w
    /\ UNCHANGED besideSession

\* A task begins operation op: nothing called yet, no outcome yet.
Begin(t, op) ==
    [Ctx(t) EXCEPT !.out = "pending", !.ev = << >>,
                   !.l = [NoLocals EXCEPT !.op = op]]

\* An operation that holds no lock ends with outcome o.
Done(c, o) == [c EXCEPT !.pc = "ready", !.out = o]

----------------------------------------------------------------------------
(* Session.connect and Session.disconnect *)

\* A connect that does not look at _connected.
ConnectCheckAlways(s) ==
    IF s.device = NoDevice THEN "return"
    ELSE IF s.credential = NoCredential THEN "raise"
    ELSE "call"

\* Session.connect up to the device call: return early, raise, or call.
ConnectCheck(s) ==
    IF s.device = NoDevice THEN "return"
    ELSE IF s.connected THEN "return"
    ELSE IF s.credential = NoCredential THEN "raise"
    ELSE "call"

\* Session.disconnect up to the device call: return early or call.
DisconnectCheck(s) ==
    IF s.device = NoDevice THEN "return"
    ELSE IF ~s.connected THEN "return"
    ELSE "call"

\* self.device.connect(credential=self._credential, ...) is called; the
\* task waits at waitpc.  Device.connect stores the credential first.
DeviceConnectCall(c, waitpc) ==
    [c EXCEPT !.pc = waitpc,
              !.d.current_credential = c.s.credential,
              !.l.arg = c.s.credential,
              !.ev = Append(@, "device.connect")]

\* device.connect returned: the rest of Session.connect.
ConnectOk(c) ==
    [c EXCEPT !.d.connected = TRUE,
              !.a = c.l.arg,
              !.s.time_last_connect = now,
              !.s.connected = TRUE,
              !.s.idle = TRUE]

\* self.device.disconnect() is called; the task waits at waitpc.
DeviceDisconnectCall(c, waitpc) ==
    [c EXCEPT !.pc = waitpc, !.ev = Append(@, "device.disconnect")]

\* device.disconnect returned: the rest of Session.disconnect.
DisconnectOk(c) ==
    [c EXCEPT !.d.connected = FALSE,
              !.s.time_last_disconnect = now,
              !.s.connected = FALSE,
              !.s.idle = TRUE]

\* A task calls Session.connect().
ConnectCall(t) ==
    /\ pc[t] = "ready"
    /\ UNCHANGED << now, sweeper >>
    /\ LET c == [Begin(t, "connect") EXCEPT !.l.before = session] IN
       CASE ConnectCheck(c.s) = "return" -> Apply(t, Done(c, "ok"))
         [] ConnectCheck(c.s) = "raise" ->
                Apply(t, Done(c, "NoMatchingCredentialError"))
         [] ConnectCheck(c.s) = "call" ->
                Apply(t, DeviceConnectCall(c, "connect_wait"))

\* device.connect returns to Session.connect() with outcome o.
ConnectReturn(t, o) ==
    /\ pc[t] = "connect_wait"
    /\ UNCHANGED << now, sweeper >>
    /\ IF o = "ok" THEN Apply(t, Done(ConnectOk(Ctx(t)), "ok"))
       ELSE Apply(t, Done(Ctx(t), o))

\* A task calls Session.disconnect().
DisconnectCall(t) ==
    /\ pc[t] = "ready"
    /\ UNCHANGED << now, sweeper >>
    /\ LET c == [Begin(t, "disconnect") EXCEPT !.l.before = session] IN
       IF DisconnectCheck(c.s) = "return" THEN Apply(t, Done(c, "ok"))
       ELSE Apply(t, DeviceDisconnectCall(c, "disconnect_wait"))

\* device.disconnect returns to Session.disconnect() with outcome o.
DisconnectReturn(t, o) ==
    /\ pc[t] = "disconnect_wait"
    /\ UNCHANGED << now, sweeper >>
    /\ IF o = "ok" THEN Apply(t, Done(DisconnectOk(Ctx(t)), "ok"))
       ELSE Apply(t, Done(Ctx(t), o))

----------------------------------------------------------------------------
(* Session._set_credential: session.credential = c *)

\* self._credential = c, then the reconnect when the session was connected.
\* NoMatchingCredentialError is not a ConnectError: it is not caught.
StoreAndReconnect(c) ==
    LET c1 == [c EXCEPT !.s.credential = c.l.c, !.ev = Append(@, "store")] IN
    IF ~c1.l.try_to_reconnect THEN Done(c1, "ok")
    ELSE CASE ConnectCheck(c1.s) = "return" -> Done(c1, "ok")
           [] ConnectCheck(c1.s) = "raise" ->
                  Done(c1, "NoMatchingCredentialError")
           [] ConnectCheck(c1.s) = "call" ->
                  DeviceConnectCall(c1, "setcred_connect")

\* A task assigns session.credential = cred.
SetCredentialCall(t, cred) ==
    /\ pc[t] = "ready"
    /\ UNCHANGED << now, sweeper >>
    /\ LET c == [Begin(t, "setcred") EXCEPT
                    !.l.c = cred, !.l.try_to_reconnect = session.connected,
                    !.l.old = session.credential]
       IN IF CredentialNe(cred, c.s.credential)
                /\ DisconnectCheck(c.s) = "call"
          THEN Apply(t, DeviceDisconnectCall(c, "setcred_disconnect"))
          ELSE Apply(t, StoreAndReconnect(c))

\* device.disconnect returns to _set_credential: an errors.Error is logged
\* and the assignment goes on, any other exception leaves the assignment.
SetCredentialDisconnectReturn(t, o) ==
    /\ pc[t] = "setcred_disconnect"
    /\ UNCHANGED << now, sweeper >>
    /\ CASE o = "ok" -> Apply(t, StoreAndReconnect(DisconnectOk(Ctx(t))))
         [] o = "Error" -> Apply(t, StoreAndReconnect(Ctx(t)))
         [] o = "Exception" -> Apply(t, Done(Ctx(t), o))

\* device.connect returns to _set_credential: a ConnectError is dropped,
\* any other exception leaves the assignment.
SetCredentialConnectReturn(t, o) ==
    /\ pc[t] = "setcred_connect"
    /\ UNCHANGED << now, sweeper >>
    /\ CASE o = "ok" -> Apply(t, Done(ConnectOk(Ctx(t)), "ok"))
         [] o = "ConnectError" -> Apply(t, Done(Ctx(t), "ok"))
         [] OTHER -> Apply(t, Done(Ctx(t), o))

----------------------------------------------------------------------------
(* Session.request *)

\* A request whose inner finally does not set idle.
RequestDoneKeepsIdle(c, o, inner) ==
    [c EXCEPT !.pc = "ready", !.out = o, !.x = NoTask]

\* A request that ends with an error without releasing the lock.
RequestDoneKeepsLock(c, o, inner) ==
    [c EXCEPT !.pc = "ready", !.out = o,
              !.x = IF o = "ok" THEN NoTask ELSE @,
              !.s.idle = IF inner THEN TRUE ELSE @]

\* The request ends with outcome o and releases the lock; inner is whether
\* the inner try was entered, whose finally sets idle.
RequestDone(c, o, inner) ==
    [c EXCEPT !.pc = "ready", !.out = o, !.x = NoTask,
              !.s.idle = IF inner THEN TRUE ELSE @]

\* device_method(*args, **kwargs) is called; the task waits at waitpc.
InvokeCall(c, waitpc) ==
    [c EXCEPT !.pc = waitpc, !.ev = Append(@, "invoke")]

\* time_last_request is set, idle is cleared, the device method is called.
ExecStart(c) ==
    InvokeCall([c EXCEPT !.s.time_last_request = now, !.s.idle = FALSE],
               "request_exec")

\* if e.retry: self.connect(); device_method(...)   else: raise e
RetryOrRaise(c) ==
    IF retry(c.l.e)
    THEN CASE ConnectCheck(c.s) = "return" -> InvokeCall(c, "request_retry")
           [] ConnectCheck(c.s) = "raise" ->
                  RequestDone(c, "NoMatchingCredentialError", TRUE)
           [] ConnectCheck(c.s) = "call" ->
                  DeviceConnectCall(c, "request_reconnect")
    ELSE RequestDone(c, c.l.e, TRUE)

\* except errors.ApiError, e: the disconnect, then the retry.
HandleApiError(c, e) ==
    LET c1 == [c EXCEPT !.l.e = e] IN
    IF disconnect_on_error(e) /\ DisconnectCheck(c1.s) = "call"
    THEN DeviceDisconnectCall(c1, "request_disconnect")
    ELSE RetryOrRaise(c1)

\* An acquire that never waits.
LockFreeAlways(x) == TRUE

\* self._exclusive.acquire() returns only when no task holds the lock.
LockFree(x) == x = NoTask

\* The sequence q without task t.
Without(q, t) == SelectSeq(q, LAMBDA u : u # t)

\* A task calls Session.request(method): it waits for the lock.
RequestCall(t, method) ==
    /\ pc[t] = "ready"
    /\ UNCHANGED << now, sweeper >>
    /\ Apply(t, [Begin(t, "request") EXCEPT
                    !.pc = "request_acquire", !.l.method = method,
                    !.w = Append(@, t)])

\* The task acquires the lock and runs up to the first device call.
RequestAcquire(t) ==
    /\ pc[t] = "request_acquire"
    /\ LockFree(exclusive)
    /\ UNCHANGED << now, sweeper >>
    /\ LET c == [Ctx(t) EXCEPT !.x = t, !.w = Without(@, t)] IN
       IF c.l.method \notin valid_requests
       THEN Apply(t, RequestDone(c, "InvalidRequestError", FALSE))
       ELSE IF c.s.device = NoDevice
       THEN Apply(t, RequestDone(c, "InvalidDeviceError", FALSE))
       ELSE IF ~c.s.connected
       THEN CASE ConnectCheck(c.s) = "return" -> Apply(t, ExecStart(c))
              [] ConnectCheck(c.s) = "raise" ->
                     Apply(t, RequestDone(c, "NoMatchingCredentialError",
                                          FALSE))
              [] ConnectCheck(c.s) = "call" ->
                     Apply(t, DeviceConnectCall(c, "request_connect"))
       ELSE Apply(t, ExecStart(c))

\* device.connect returns to the request's auto-connect.
RequestConnectReturn(t, o) ==
    /\ pc[t] = "request_connect"
    /\ UNCHANGED << now, sweeper >>
    /\ IF o = "ok" THEN Apply(t, ExecStart(ConnectOk(Ctx(t))))
       ELSE Apply(t, RequestDone(Ctx(t), o, FALSE))

\* The device method returns from its first invocation.
RequestExecReturn(t, o) ==
    /\ pc[t] = "request_exec"
    /\ UNCHANGED << now, sweeper >>
    /\ CASE o = "ok" ->
              Apply(t, RequestDone([Ctx(t) EXCEPT
                                       !.s.time_last_response = now],
                                   "ok", TRUE))
         [] o \in ApiErrors -> Apply(t, HandleApiError(Ctx(t), o))
         [] OTHER -> Apply(t, RequestDone(Ctx(t), o, TRUE))

\* device.disconnect returns to the request's error handler.
RequestDisconnectReturn(t, o) ==
    /\ pc[t] = "request_disconnect"
    /\ UNCHANGED << now, sweeper >>
    /\ IF o = "ok" THEN Apply(t, RetryOrRaise(DisconnectOk(Ctx(t))))
       ELSE Apply(t, RequestDone(Ctx(t), o, TRUE))

\* device.connect returns to the retry's reconnect.
RequestReconnectReturn(t, o) ==
    /\ pc[t] = "request_reconnect"
    /\ UNCHANGED << now, sweeper >>
    /\ IF o = "ok"
       THEN Apply(t, InvokeCall(ConnectOk(Ctx(t)), "request_retry"))
       ELSE Apply(t, RequestDone(Ctx(t), o, TRUE))

\* A second invocation whose failure is retried again.
RequestRetryReturnAgain(t, o) ==
    /\ pc[t] = "request_retry"
    /\ UNCHANGED << now, sweeper >>
    /\ IF o = "ok"
       THEN Apply(t, RequestDone([Ctx(t) EXCEPT
                                     !.s.time_last_response = now],
                                 "ok", TRUE))
       ELSE Apply(t, InvokeCall(Ctx(t), "request_retry"))

\* The device method returns from its second invocation: no handler is left.
RequestRetryReturn(t, o) ==
    /\ pc[t] = "request_retry"
    /\ UNCHANGED << now, sweeper >>
    /\ IF o = "ok"
       THEN Apply(t, RequestDone([Ctx(t) EXCEPT
                                     !.s.time_last_response = now],
                                 "ok", TRUE))
       ELSE Apply(t, RequestDone(Ctx(t), o, TRUE))

----------------------------------------------------------------------------
(* Controller._session_idle_check, for the one cached session *)

\* session.time_last_request or 0
LastRequestOrZero(s) ==
    IF s.time_last_request = NoTime THEN 0 ELSE s.time_last_request

\* The sweeper's test of a session: whether it disconnects it.
IdleExpired(s) ==
    /\ s.idle
    /\ s.connected
    /\ now > LastRequestOrZero(s) + MAX_IDLE_TIME

\* A run of the sweeper: it either calls session.disconnect(), which calls
\* device.disconnect(), or skips the session and re-schedules itself.
SweeperRun ==
    /\ sweeper = "scheduled"
    /\ UNCHANGED << exclusive, now, pc, loc, calls, outcome,
                    auth_credential, session, device, waiting >>
    /\ UNCHANGED besideSession
    /\ IF IdleExpired(session) /\ DisconnectCheck(session) = "call"
       THEN sweeper' = "disconnecting"
       ELSE sweeper' = "scheduled"

\* device.disconnect returns to the sweeper: an exception leaves
\* _session_idle_check before it has re-scheduled itself.
SweeperDisconnectReturn(o) ==
    /\ sweeper = "disconnecting"
    /\ UNCHANGED << exclusive, now, pc, loc, calls, outcome,
                    auth_credential, waiting >>
    /\ UNCHANGED besideSession
    /\ IF o = "ok"
       THEN /\ session' = [session EXCEPT !.time_last_disconnect = now,
                                          !.connected = FALSE,
                                          !.idle = TRUE]
            /\ device' = [device EXCEPT !.connected = FALSE]
            /\ sweeper' = "scheduled"
       ELSE /\ UNCHANGED << session, device >>
            /\ sweeper' = "dead"

\* Time passes.
Tick ==
    /\ now + TickStep <= MaxNow
    /\ now' = now + TickStep
    /\ UNCHANGED << session, device, exclusive, pc, loc, calls, outcome,
                    sweeper, auth_credential, waiting >>
    /\ UNCHANGED besideSession

----------------------------------------------------------------------------
(* lru.LruDict *)

\* The keys read and written.
NumKeys == 3
Keys == 1..NumKeys

\* LruDict.maximum_size, as the cache is constructed.
maximum_size == 2

\* The clock of the cache stops here.
MaxLruTime == 1

\* At most this many age timers are armed for one key.
MaxTimers == 1

\* At most this many expiries are stopped by the expire callback raising.
MaxVetoes == 1

\* The value a key has when it is not in data.
Absent == 0

\* The populate callbacks that can be set: the one the cache was made with.
Callbacks == {1}

\* populate_callback(key): each callback's value for a key.
Populate(cb, k) == 10 * cb + k

\* The values a caller sets with lru[key] = value.
SetValues == {7}

\* The values of a caller that sets a key more than once.
WriteValues == {7, 8}

\* What the expire callback can do with an entry.
ExpireOutcomes == {"ok", "DontExpireError", "Exception"}

\* What the populate callback can do with a key.
PopulateOutcomes == {"value", "DontPopulateItemError", "Exception"}

\* HeapItem.__init__
HeapItem(k) == [time |-> lru_now, key |-> k]

\* HeapItem.__lt__
HeapLt(x, y) == x.time < y.time

\* heapq._siftdown, with newitem taken out of h[pos]; positions count from 1.
RECURSIVE SiftDown(_, _, _, _)
SiftDown(h, startpos, pos, newitem) ==
    IF pos > startpos /\ HeapLt(newitem, h[pos \div 2])
    THEN SiftDown([h EXCEPT ![pos] = h[pos \div 2]], startpos, pos \div 2,
                  newitem)
    ELSE [h EXCEPT ![pos] = newitem]

\* The loop of heapq._siftup: the smaller child is moved up until a leaf.
RECURSIVE SiftUpLoop(_, _, _, _)
SiftUpLoop(h, startpos, pos, newitem) ==
    LET childpos == 2 * pos
        rightpos == childpos + 1
        smaller == IF rightpos <= Len(h) /\ ~HeapLt(h[childpos], h[rightpos])
                   THEN rightpos ELSE childpos
    IN IF childpos <= Len(h)
       THEN SiftUpLoop([h EXCEPT ![pos] = h[smaller]], startpos, smaller,
                       newitem)
       ELSE SiftDown(h, startpos, pos, newitem)

\* heapq._siftup
SiftUp(h, pos) == SiftUpLoop(h, pos, pos, h[pos])

\* heapq.heappush
heappush(h, item) == SiftDown(Append(h, item), 1, Len(h) + 1, item)

\* heapq.heappop: the heap that is left; the item popped is h[1].
heappop(h) ==
    LET lastelt == h[Len(h)]
        rest == SubSeq(h, 1, Len(h) - 1)
    IN IF rest = << >> THEN rest
       ELSE SiftUp([rest EXCEPT ![1] = lastelt], 1)

\* heapq.heapreplace: the heap that is left; the item replaced is h[1].
heapreplace(h, item) == SiftUp([h EXCEPT ![1] = item], 1)

\* The number of cached entries, len(lru).
Size(d) == Cardinality({k \in Keys : d[k] # Absent})

\* The cache as LruDict's methods work on it.
Cache == [heap |-> heap, data |-> data, timers |-> timers, vetoes |-> vetoes,
          raised |-> "none", kept |-> 0]

\* An expiry that removes nothing.
ExpireEntryKeeps(c, k, eo) == c

\* An expiry that removes the entry although the expire callback refuses.
ExpireEntryDespiteRefusal(c, k, eo) ==
    IF c.data[k] # Absent /\ eo = "DontExpireError"
    THEN [c EXCEPT !.vetoes = @ + 1, !.kept = k, !.data[k] = Absent]
    ELSE IF c.data[k] # Absent /\ eo = "Exception"
    THEN [c EXCEPT !.vetoes = @ + 1, !.raised = "Exception"]
    ELSE [c EXCEPT !.data[k] = Absent]

\* LruDict._expire_item(key): the expire callback is asked when the key is
\* cached and may refuse or fail; else the key is deleted, if it is there.
ExpireEntry(c, k, eo) ==
    IF c.data[k] # Absent /\ eo = "DontExpireError"
    THEN [c EXCEPT !.vetoes = @ + 1, !.kept = k]
    ELSE IF c.data[k] # Absent /\ eo = "Exception"
    THEN [c EXCEPT !.vetoes = @ + 1, !.raised = "Exception"]
    ELSE [c EXCEPT !.data[k] = Absent]

\* A set that keeps the value a cached key has.
PushAndSetKeepsFirst(c, k, v, eo) ==
    IF c.data[k] # Absent THEN c ELSE [c EXCEPT !.data[k] = v]

\* LruDict._push_and_set(key, value)
PushAndSet(c, k, v, eo) ==
    LET item == HeapItem(k)
        pushed ==
            IF Len(c.heap) < maximum_size
            THEN [c EXCEPT !.heap = heappush(c.heap, item)]
            ELSE ExpireEntry([c EXCEPT !.heap = heapreplace(c.heap, item)],
                             c.heap[1].key, eo)
    IN IF pushed.raised # "none" THEN pushed
       ELSE [pushed EXCEPT
                !.data[k] = v,
                !.timers[k] = IF maximum_age THEN @ + 1 ELSE @]

\* What is kept of the last operation: how it ended; of an insert, that it
\* was one (a rewrite when the key was cached) and whether the expire
\* callback refused the expiry it asked for; of a rewrite that returned, the
\* key and the value it was to store.
LastOperation(c, op, k, v) ==
    IF op = "rewrite" /\ c.raised = "none"
    THEN [op |-> op, raised |-> c.raised, key |-> k, value |-> v,
          refused |-> c.kept # 0]
    ELSE [op |-> IF op = "insert" \/ op = "rewrite" THEN op ELSE "other",
          raised |-> c.raised, key |-> 0, value |-> Absent,
          refused |-> op = "insert" /\ c.kept # 0]

\* The cache after a method left it as c; op, k and v say which call it was.
LruStore(c, op, k, v) ==
    /\ heap' = c.heap
    /\ data' = c.data
    /\ timers' = c.timers
    /\ vetoes' = c.vetoes
    /\ lru_last' = LastOperation(c, op, k, v)
    /\ UNCHANGED << maximum_age, populate_callback, lru_now >>

\* A method of the cache called on its own.
LruApply(c, op, k, v) ==
    /\ LruStore(c, op, k, v)
    /\ UNCHANGED besideLru

\* The expire callback is called for key k only when k is cached; eo is what
\* it does then, and it can still raise.
CanExpire(k, eo) ==
    IF k \in Keys /\ data[k] # Absent
    THEN eo # "ok" => vetoes < MaxVetoes
    ELSE eo = "ok"

\* The key whose expiry an insert asks for: the oldest heap item's, when the
\* heap is full.
Evicted == IF Len(heap) < maximum_size THEN 0 ELSE heap[1].key

\* An insert can arm its timer.
CanInsert(k) == maximum_age => timers[k] < MaxTimers

\* lru[key]: LruDict.__getitem__, the populate callback ending with po;
\* Then says what the caller does with the cache it leaves.
GetItemWith(k, po, eo, Then(_, _, _, _)) ==
    IF data[k] # Absent
    THEN /\ po = "value" /\ eo = "ok"
         /\ Then(Cache, "read", k, data[k])
    ELSE /\ CanInsert(k)
         /\ CASE po = "DontPopulateItemError" ->
                    /\ eo = "ok"
                    /\ Then(Cache, "read", k, Absent)
              [] po = "Exception" ->
                    /\ eo = "ok"
                    /\ Then([Cache EXCEPT !.raised = "Exception"],
                             "read", k, Absent)
              [] po = "value" ->
                    /\ CanExpire(Evicted, eo)
                    /\ LET c == PushAndSet(Cache, k,
                                           Populate(populate_callback, k), eo)
                       IN Then(c, "insert", k,
                                Populate(populate_callback, k))

\* lru[key] called on its own.
GetItem(k, po, eo) == GetItemWith(k, po, eo, LruApply)

\* lru[key] = value: LruDict.__setitem__; a rewrite when key is cached.
SetItem(k, v, eo) ==
    /\ CanInsert(k)
    /\ CanExpire(Evicted, eo)
    /\ LruApply(PushAndSet(Cache, k, v, eo),
                IF data[k] # Absent THEN "rewrite" ELSE "insert", k, v)

\* LruDict.get(key, default): the value returned.
get(d, k, default) == IF d[k] # Absent THEN d[k] ELSE default

\* lru.get(key): a read that never populates.
Get(k) == LruApply(Cache, "read", k, get(data, k, Absent))

\* LruDict.expire_item(): IndexError when the heap is empty.
ExpireItem(eo) ==
    IF heap = << >>
    THEN /\ eo = "ok"
         /\ LruApply([Cache EXCEPT !.raised = "IndexError"], "expire",
                     0, Absent)
    ELSE /\ CanExpire(heap[1].key, eo)
         /\ LruApply(ExpireEntry([Cache EXCEPT !.heap = heappop(heap)],
                                 heap[1].key, eo),
                     "expire", heap[1].key, data[heap[1].key])

\* An age timer of key k fires: self._expire_item(key).
TimerFires(k, eo) ==
    /\ timers[k] > 0
    /\ CanExpire(k, eo)
    /\ LruApply(ExpireEntry([Cache EXCEPT !.timers[k] = @ - 1], k, eo),
                "expire", k, Absent)

\* LruDict.set_populate_callback(callback)
SetPopulateCallback(cb) ==
    /\ heap' = << >>
    /\ data' = [k \in Keys |-> Absent]
    /\ populate_callback' = cb
    /\ lru_last' = LastOperation(Cache, "init", 0, Absent)
    /\ UNCHANGED << timers, vetoes, maximum_age, lru_now >>
    /\ UNCHANGED besideLru

\* Time passes for the cache.
LruTick ==
    /\ lru_now < MaxLruTime
    /\ lru_now' = lru_now + 1
    /\ UNCHANGED << heap, data, timers, vetoes, maximum_age,
                    populate_callback, lru_last >>
    /\ UNCHANGED besideLru

\* LruDict.__init__, with a maximum_age or with none.
LruInit(age) ==
    /\ heap = << >>
    /\ data = [k \in Keys |-> Absent]
    /\ maximum_age = age
    /\ timers = [k \in Keys |-> 0]
    /\ populate_callback = 1
    /\ lru_now = 0
    /\ vetoes = 0
    /\ lru_last = LastOperation(Cache, "init", 0, Absent)

----------------------------------------------------------------------------
(* client.Request and client.Connection.  The caller and the workers are    *)
(* green threads: a worker, a timer or the link of a worker that has ended  *)
(* runs only while the caller waits (gt.wait() or wait_all()), and runs      *)
(* until it waits itself.  The Connection's counters are left out.           *)

\* At most this many Requests are made.
NumRequests == 2

Requests == 1..NumRequests

\* No request: what the caller waits for when it waits for none.
NoRequest == 0

\* What the agent's answer to a request can be: a result, or an error that
\* _send_notch_api_request stores in request.error.
Responses == {"value", "ProtocolError", "socket.error"}

\* Request.__init__
NewRequest ==
    [callback |-> FALSE, timeout_s |-> FALSE, result |-> "None",
     error |-> "None", timeout |-> "None"]

\* A completed that looks at result and error only.
completedWhenSet(r) == r.result # "None" \/ r.error # "None"

\* Request._completed
completed(r) ==
    IF r.timeout # "None"
    THEN (r.result # "None" \/ r.error # "None") /\ r.timeout # "pending"
    ELSE r.result # "None" \/ r.error # "None"

\* Request.start: the Timeout is made by the green thread that calls start.
start(r) == IF r.timeout_s THEN [r EXCEPT !.timeout = "pending"] ELSE r

\* Request.finish: self._timeout.cancel()
finish(r) ==
    IF r.timeout = "pending" THEN [r EXCEPT !.timeout = "cancelled"] ELSE r

\* What the user callback sees of the request it is called with.
Snapshot(r) ==
    [result |-> r.result, error |-> r.error, completed |-> completed(r)]

\* The caller runs, waiting for nothing; e is what its last call raised.
Running(e) == [pc |-> "ready", q |-> NoRequest, raised |-> e]

\* Connection._request_callback for a worker that returned request r: the
\* request is finished and the user callback is called with it.
RequestCallback(q, r) ==
    /\ request' = [request EXCEPT ![q] = finish(r)]
    /\ called' = [called EXCEPT ![q] = Append(@, Snapshot(finish(r)))]

\* The worker of q has returned request r: its link runs when the request
\* has a callback, else the request waits for the caller's gt.wait().
WorkerReturned(q, r) ==
    IF r.callback
    THEN RequestCallback(q, r)
    ELSE /\ request' = [request EXCEPT ![q] = r]
         /\ UNCHANGED called

\* Connection.exec_request(request), the request made with a callback or
\* none, a timeout_s or none, and a method that is known or not.
ExecRequest(q, cb, ts, known, p) ==
    /\ caller.pc = "ready"
    /\ gt[q] = "none"
    /\ IF ~known
       THEN /\ p = "responds"
            /\ caller' = Running("UnknownCommandError")
            /\ request' = [request EXCEPT
                              ![q] = [NewRequest EXCEPT !.callback = cb,
                                                        !.timeout_s = ts]]
            /\ UNCHANGED << gt, peer, called >>
       ELSE /\ request' = [request EXCEPT
                              ![q] = start([NewRequest EXCEPT
                                               !.callback = cb,
                                               !.timeout_s = ts])]
            /\ gt' = [gt EXCEPT ![q] = "spawned"]
            /\ peer' = [peer EXCEPT ![q] = p]
            /\ caller' = IF cb THEN Running("none")
                         ELSE [pc |-> "wait", q |-> q, raised |-> "none"]
            /\ UNCHANGED called
    /\ UNCHANGED besideClient

\* The worker of q starts: _send_notch_api_request calls the agent and
\* waits for its answer.
WorkerStart(q) ==
    /\ caller.pc # "ready"
    /\ gt[q] = "spawned"
    /\ gt' = [gt EXCEPT ![q] = "running"]
    /\ UNCHANGED << request, peer, caller, called >>
    /\ UNCHANGED besideClient

\* The agent answers q: _send_notch_api_request stores the result or the
\* error and returns the request.
PeerResponds(q, o) ==
    /\ caller.pc # "ready"
    /\ gt[q] = "running"
    /\ peer[q] = "responds"
    /\ gt' = [gt EXCEPT ![q] = "returned"]
    /\ WorkerReturned(q, IF o = "value"
                         THEN [request[q] EXCEPT !.result = o]
                         ELSE [request[q] EXCEPT !.error = o])
    /\ UNCHANGED << peer, caller >>
    /\ UNCHANGED besideClient

\* _exec_requests goes on after gt.wait(): r.finish(), results.append(r).
SyncReturn ==
    /\ caller.pc = "wait"
    /\ gt[caller.q] = "returned"
    /\ request' = [request EXCEPT ![caller.q] = finish(@)]
    /\ caller' = Running("none")
    /\ UNCHANGED << gt, peer, called >>
    /\ UNCHANGED besideClient

\* A timeout that raises nothing in the caller.
TimeoutFiresSilently(q) ==
    /\ request[q].timeout = "pending"
    /\ request' = [request EXCEPT ![q].timeout = "fired"]
    /\ UNCHANGED << gt, peer, caller, called >>
    /\ UNCHANGED besideClient

\* A timeout that stores TimeoutError in the request and calls its callback.
TimeoutFiresCallsBack(q) ==
    /\ request[q].timeout = "pending"
    /\ caller.pc # "ready"
    /\ gt[q] # "spawned"
    /\ caller' = Running("TimeoutError")
    /\ RequestCallback(q, [request[q] EXCEPT !.timeout = "fired",
                                             !.error = "TimeoutError"])
    /\ UNCHANGED << gt, peer >>
    /\ UNCHANGED besideClient

\* The Timeout of q expires: TimeoutError is raised in the green thread that
\* called start, the caller, where it waits.
TimeoutFires(q) ==
    /\ request[q].timeout = "pending"
    /\ caller.pc # "ready"
    /\ gt[q] # "spawned"
    /\ request' = [request EXCEPT ![q].timeout = "fired"]
    /\ caller' = Running("TimeoutError")
    /\ UNCHANGED << gt, peer, called >>
    /\ UNCHANGED besideClient

\* Connection.wait_all()
WaitAll ==
    /\ caller.pc = "ready"
    /\ caller' = [pc |-> "wait_all", q |-> NoRequest, raised |-> "none"]
    /\ UNCHANGED << request, gt, peer, called >>
    /\ UNCHANGED besideClient

\* wait_all returns when no worker is left.
WaitAllReturn ==
    /\ caller.pc = "wait_all"
    /\ \A q \in Requests : gt[q] \notin {"spawned", "running"}
    /\ caller' = Running("none")
    /\ UNCHANGED << request, gt, peer, called >>
    /\ UNCHANGED besideClient

\* The workers that kill_all finds in self._pool.coroutines_running.
InFlight == {q \in Requests : gt[q] \in {"spawned", "running"}}

\* A kill_all that leaves the workers that have not started.
KillAllStarted == 
    /\ caller.pc = "ready"
    /\ gt' = [q \in Requests |->
                 IF gt[q] = "running" THEN "returned" ELSE gt[q]]
    /\ request' = [q \in Requests |->
                      IF gt[q] = "running"
                      THEN [request[q] EXCEPT !.error = "RequestCancelledError"]
                      ELSE request[q]]
    /\ UNCHANGED << peer, caller, called >>
    /\ UNCHANGED besideClient

\* The request of a worker that gt.kill(RequestCancelledError) ends: a worker
\* that waits for the agent catches the error in _send_notch_api_request,
\* stores it and returns the request, and its link finishes the request.
Killed(q) ==
    IF gt[q] # "running" THEN request[q]
    ELSE IF request[q].callback
         THEN finish([request[q] EXCEPT !.error = "RequestCancelledError"])
         ELSE [request[q] EXCEPT !.error = "RequestCancelledError"]

\* Connection.kill_all(): a worker that has not started ends raising
\* RequestCancelledError, and _request_callback does nothing for it.
KillAll ==
    /\ caller.pc = "ready"
    /\ gt' = [q \in Requests |->
                 CASE gt[q] = "spawned" -> "raised"
                   [] gt[q] = "running" -> "returned"
                   [] OTHER -> gt[q]]
    /\ request' = [q \in Requests |-> Killed(q)]
    /\ called' = [q \in Requests |->
                     IF gt[q] = "running" /\ request[q].callback
                     THEN Append(called[q], Snapshot(Killed(q)))
                     ELSE called[q]]
    /\ UNCHANGED << peer, caller >>
    /\ UNCHANGED besideClient

\* Connection.__init__: no request has been made.
ClientInit ==
    /\ request = [q \in Requests |-> NewRequest]
    /\ gt = [q \in Requests |-> "none"]
    /\ peer = [q \in Requests |-> "responds"]
    /\ caller = Running("none")
    /\ called = [q \in Requests |-> << >>]

----------------------------------------------------------------------------
(* lb_transport: the policies and LoadBalancingTransport.request.  One      *)
(* request is sent at a time.  The policies' counters (total_requests,       *)
(* error_requests, response_sizes, num_rpc_inflight) are left out.           *)

\* The number of backends, n.
NumBackends == 2

Backends == 1..NumBackends

\* No backend: no request is on its way.
NoBackend == 0

\* time.time() is read up to this value.
MaxLbTime == 3

\* At most this many selections are remembered.
MaxSelections == 3

\* Backend.state
IDLE == "IDLE"
ACTIVE == "ACTIVE"
ERROR == "ERROR"

\* The orders in which a frozenset of the backends can be iterated.
Orders ==
    {o \in [Backends -> Backends] : \A i, j \in Backends : o[i] = o[j] => i = j}

\* What backend.transport.request can give: a response, None, an exception.
TransportOutcomes == {"response", "None", "exception"}

\* LowestLatencyPolicy._backend_up
BackendUp(t, b) == t.state[b] = ACTIVE \/ t.state[b] = IDLE

\* The backends with the smallest last_request_rtt: current_rtt[0][1] is one
\* of them, the first in the order of the Backend objects.
LowestRtt(t) ==
    {b \in Backends : \A c \in Backends : t.last_request_rtt[b]
                                            <= t.last_request_rtt[c]}

\* LowestLatencyPolicy.backend_stream: what one turn of the loop can yield.
LowestLatencyChoices(t) ==
    IF \E b \in Backends : t.last_request_rtt[b] = 0 /\ BackendUp(t, b)
    THEN Backends
    ELSE LowestRtt(t)

\* RoundRobinPolicy.backend_stream: what the generator yields when it is
\* at position pos of self._backends.
RoundRobinNext(t, pos) == t.order[pos]

\* The last entries of a sequence of selections, with b added; the
\* selections of a round-robin policy are remembered.
Remember(q, b) ==
    IF Len(q) < MaxSelections THEN Append(q, b)
    ELSE Append(SubSeq(q, 2, Len(q)), b)

\* BackendPolicy.__iter__, one turn: the backend the stream yields is noted
\* with the time.
Yield(t, b) == [t EXCEPT !.last_request_start[b] = t.now]

\* iterator = iter(policy): a caller keeps one generator of a RoundRobinPolicy.
Iter ==
    /\ lb.policy = "RoundRobinPolicy"
    /\ lb.iterator = 0
    /\ lb.pending = NoBackend
    /\ lb' = [lb EXCEPT !.iterator = 1]
    /\ UNCHANGED besideTransport

\* iterator.next() on the generator the caller keeps.
IterNext ==
    /\ lb.iterator # 0
    /\ lb.pending = NoBackend
    /\ LET b == RoundRobinNext(lb, lb.iterator)
       IN lb' = [Yield(lb, b) EXCEPT
                    !.iterator = (lb.iterator % NumBackends) + 1,
                    !.picked = Remember(@, b)]
    /\ UNCHANGED besideTransport

\* LoadBalancingTransport.request, up to backend.transport.request:
\* iter(self.policy).next() makes a new generator and takes its first backend.
TransportRequest(b) ==
    /\ lb.pending = NoBackend
    /\ b \in (IF lb.policy = "RoundRobinPolicy"
              THEN {RoundRobinNext(lb, 1)}
              ELSE LowestLatencyChoices(lb))
    /\ lb' = [Yield(lb, b) EXCEPT
                 !.pending = b,
                 !.routed = IF lb.policy = "RoundRobinPolicy"
                            THEN Remember(@, b) ELSE @,
                 !.choices = IF lb.policy = "RoundRobinPolicy"
                             THEN {RoundRobinNext(lb, 1)}
                             ELSE LowestLatencyChoices(lb)]
    /\ UNCHANGED besideTransport

\* BackendPolicy.report_response(backend, response, exc)
ReportResponse(t, b, o) ==
    [t EXCEPT !.state[b] = IF o = "None" THEN ERROR ELSE @,
              !.last_request_rtt[b] =
                   IF t.now - t.last_request_start[b] > 0
                   THEN t.now - t.last_request_start[b] ELSE 0,
              !.reported = @ \cup {b}]

\* LoadBalancingTransport.request, from the return of
\* backend.transport.request on.  A backend left IDLE has no transport, and
\* the call on it raises.
TransportResponse(o) ==
    /\ lb.pending # NoBackend
    /\ lb.state[lb.pending] = IDLE => o = "exception"
    /\ lb' = [ReportResponse(lb, lb.pending, o) EXCEPT !.pending = NoBackend]
    /\ UNCHANGED besideTransport

\* time.time() goes on.  Between two readings it can also stand still, or
\* be set back, which max(0, ...) in report_response turns into the same 0.
TransportTick ==
    /\ lb.now < MaxLbTime
    /\ lb' = [lb EXCEPT !.now = @ + 1]
    /\ UNCHANGED besideTransport

\* No LoadBalancingTransport has been made.
NoTransport == [policy |-> "none"]

\* LoadBalancingTransport.__init__ with the policy given; Backend.__init__
\* leaves a backend ACTIVE, or IDLE when its transport cannot be made.
TransportInit(policy) ==
    \E o \in Orders, st \in [Backends -> {IDLE, ACTIVE}] :
        lb = [policy |-> policy, order |-> o, iterator |-> 0,
              picked |-> << >>, routed |-> << >>, choices |-> {},
              state |-> st,
              last_request_rtt |-> [b \in Backends |-> 0],
              last_request_start |-> [b \in Backends |-> 0],
              reported |-> {}, now |-> 0, pending |-> NoBackend]

----------------------------------------------------------------------------
(* devices/trans.py: DeviceTransport.command, as IosDevice._command calls    *)
(* it.  Every expect of the command is a step: the device, the connection    *)
(* and the clock decide what it returns.                                     *)

\* At most this many pager prompts are answered in one command.
MaxPages == 2

\* At most this many commands are executed.
MaxCommands == 2

\* What self.write can do: send, or fail with socket.error or EOFError.
WriteOutcomes == {"sent", "socket.error"}

\* What an expect of the command can return beside its patterns.
EOF == "EOF"
TIMEOUT == "TIMEOUT"

\* No DeviceTransport executes a command.
NoCommand == [pc |-> "none"]

\* self.before after an expect of the response loop: a text is the sequence
\* of its pieces, "esc" an ANSI escape sequence.  pexpect returns the first
\* match, so the text before the prompt holds no prompt.
Texts == { << >>, << "x" >>, << "esc", "y" >> }

\* DeviceTransport._strip_ansi
StripAnsi(before) == SelectSeq(before, LAMBDA piece : piece # "esc")

\* before.rfind(prompt), the place of the last prompt in before, 0 for -1.
RECURSIVE Rfind(_, _, _)
Rfind(before, prompt, n) ==
    IF n = 0 THEN 0
    ELSE IF before[n] = prompt THEN n
    ELSE Rfind(before, prompt, n - 1)

\* ''.join(response_buf)
RECURSIVE Join(_)
Join(buf) == IF buf = << >> THEN << >> ELSE Head(buf) \o Join(Tail(buf))

\* A transport before its first command.  seen keeps self.before of each
\* pager and prompt match of the command, as the device sent it.
TransportReady ==
    [pc |-> "ready", commands |-> 0, pager |-> FALSE, expect_command |-> TRUE,
     pages |-> 0, sent |-> FALSE, saw |-> "none", at |-> "none",
     retry |-> FALSE, strip_ansi |-> FALSE, response_buf |-> << >>,
     result |-> << >>, seen |-> << >>]

\* errors.CommandError as the command raises it: exc.retry is set or left at
\* the class's value, False.
CommandError(t, saw, r) ==
    [t EXCEPT !.pc = "raised", !.saw = saw, !.at = t.pc, !.retry = r]

\* ParamikoExpectTransport.write: a failed send is a CommandError on which
\* retry is not set.
Write(t, w, then) ==
    IF w = "sent" THEN then ELSE CommandError(t, "write", FALSE)

\* DeviceTransport.command up to its first expect: the command trailer is
\* written to find the prompt.
Command(pager, expect_command, w) ==
    /\ transport.pc \in {"ready", "returned", "raised"}
    /\ transport.commands < MaxCommands
    /\ LET t == [transport EXCEPT !.pc = "flush", !.commands = @ + 1,
                                  !.pager = pager,
                                  !.expect_command = expect_command,
                                  !.pages = 0, !.sent = FALSE,
                                  !.saw = "none", !.at = "none",
                                  !.retry = FALSE, !.response_buf = << >>,
                                  !.result = << >>, !.seen = << >>]
       IN transport' = Write(t, w, t)
    /\ UNCHANGED besideCommand

\* The expect for the prompt returns i; on the prompt the command is written.
ExpectPrompt(i, w) ==
    /\ transport.pc = "flush"
    /\ transport' =
           CASE i = "prompt" ->
                    Write(transport, w,
                          [transport EXCEPT !.pc = "echo", !.sent = TRUE])
             [] i = EOF -> CommandError(transport, EOF, TRUE)
             [] i = TIMEOUT -> CommandError(transport, TIMEOUT, FALSE)
    /\ UNCHANGED besideCommand

\* An echo expect that leaves retry unset on a timeout.
ExpectEchoTimeoutFinal(i) ==
    /\ transport.pc = "echo"
    /\ transport' =
           CASE i = "echo" -> [transport EXCEPT !.pc = "response"]
             [] i = EOF -> CommandError(transport, EOF, TRUE)
             [] i = TIMEOUT -> CommandError(transport, TIMEOUT, FALSE)
    /\ UNCHANGED besideCommand

\* An echo expect that leaves retry unset on EOF.
ExpectEchoEofFinal(i) ==
    /\ transport.pc = "echo"
    /\ transport' =
           CASE i = "echo" -> [transport EXCEPT !.pc = "response"]
             [] i = EOF -> CommandError(transport, EOF, FALSE)
             [] i = TIMEOUT -> CommandError(transport, TIMEOUT, TRUE)
    /\ UNCHANGED besideCommand

\* The expect for the echo of the command, or for the trailer when
\* expect_command is false, returns i: if i > 0 the error is to be retried.
ExpectEcho(i) ==
    /\ transport.pc = "echo"
    /\ transport' =
           IF i = "echo" THEN [transport EXCEPT !.pc = "response"]
           ELSE CommandError(transport, i, TRUE)
    /\ UNCHANGED besideCommand

\* The text a pager match adds to response_buf.
Paged(t, before) == IF t.strip_ansi THEN StripAnsi(before) ELSE before

\* The text the prompt match adds to response_buf: before up to the last
\* prompt in it, all of before when there is none.
Final(before) ==
    LET prompt_index == Rfind(before, "prompt", Len(before))
    IN  IF prompt_index = 0 THEN before ELSE SubSeq(before, 1, prompt_index - 1)

\* A response loop that answers the pager and drops the text before it.
ExpectResponseDropsPage(i, before, w) ==
    /\ transport.pc = "response"
    /\ i = "pager" => transport.pager /\ transport.pages < MaxPages
    /\ i \in {EOF, TIMEOUT} => before = << >>
    /\ transport' =
           CASE i = "pager" ->
                    Write(transport, w,
                          [transport EXCEPT !.pages = @ + 1,
                                            !.seen = Append(@, before)])
             [] i = "prompt" ->
                    [transport EXCEPT
                        !.pc = "returned",
                        !.seen = Append(@, before),
                        !.response_buf = Append(@, Final(before)),
                        !.result = Join(Append(transport.response_buf,
                                               Final(before)))]
             [] i = EOF -> CommandError(transport, EOF, TRUE)
             [] i = TIMEOUT -> CommandError(transport, TIMEOUT, FALSE)
    /\ UNCHANGED besideCommand

\* One turn of the loop that waits for the rest of the response: the expect
\* returns the pager prompt (when a pager is given), the prompt, EOF or
\* TIMEOUT, and before is self.before of it.  strip_chars and dos2unix are left at
\* their defaults, None and False.
ExpectResponse(i, before, w) ==
    /\ transport.pc = "response"
    /\ i = "pager" => transport.pager /\ transport.pages < MaxPages
    /\ i \in {EOF, TIMEOUT} => before = << >>
    /\ transport' =
           CASE i = "pager" ->
                    LET t == [transport EXCEPT
                                 !.seen = Append(@, before),
                                 !.response_buf =
                                     Append(@, Paged(transport, before))]
                    IN  Write(t, w, [t EXCEPT !.pages = @ + 1])
             [] i = "prompt" ->
                    [transport EXCEPT
                        !.pc = "returned",
                        !.seen = Append(@, before),
                        !.response_buf = Append(@, Final(before)),
                        !.result = Join(Append(transport.response_buf,
                                               Final(before)))]
             [] i = EOF -> CommandError(transport, EOF, TRUE)
             [] i = TIMEOUT -> CommandError(transport, TIMEOUT, FALSE)
    /\ UNCHANGED besideCommand

----------------------------------------------------------------------------
(* devices/device.py: Device.connect of an IosDevice.  Every call of         *)
(* self._connect is a step: the network and the device decide how it ends.   *)

\* A device has at most this many addresses.
MaxAddresses == 2

\* At most this many connect calls are made on a device object.
MaxConnects == 2

\* IosDevice.connect_methods and IosDevice.DEFAULT_CONNECT_METHOD
connect_methods == {"telnet", "sshv2"}
DEFAULT_CONNECT_METHOD == "sshv2"

\* No connect method: None.
NoMethod == "None"

\* The connect_method arguments of a connect call: none, a method the driver
\* has, a method it does not have.
RequestedMethods == {NoMethod, "telnet", "sshv2", "rlogin"}

\* How one self._connect can end.  "ConnectError" is what the transports make
\* of a socket.error; "refused" is an OSError with errno 111, one of
\* DONT_RETRY_ERRNO; "reset" an OSError with another errno; "EOF" and
\* "TIMEOUT" are pexpect's; "AuthenticationError" stands for the errors
\* Device.connect has no handler for.
AttemptOutcomes ==
    {"ok", "ConnectError", "refused", "reset", "EOF", "TIMEOUT",
     "AuthenticationError"}

\* The outcomes the except clauses of Device.connect handle.
Handled == {"ConnectError", "refused", "reset", "EOF", "TIMEOUT"}

\* No exception: last_exc = None, and a call that has raised nothing.
NoError == [kind |-> "None", retry |-> FALSE, address |-> 0]

\* last_exc as the except clauses make it from the outcome o of address a:
\* a ConnectError is kept as it is, with the class's retry, False; a wrapped
\* error gets retry when it has an errno outside DONT_RETRY_ERRNO or is a
\* pexpect.EOF.
LastExc(o, a) ==
    [kind |-> "ConnectError", retry |-> o \in {"reset", "EOF"}, address |-> a]

\* No Device object is in use.
NoDeviceObject == [pc |-> "none"]

\* Device.__init__ with n addresses.
NewIosDevice(n) ==
    [pc |-> "idle", addresses |-> n, connected |-> FALSE,
     connect_method |-> NoMethod, connects |-> 0, requested |-> NoMethod,
     before |-> NoMethod, attempts |-> << >>, last_exc |-> NoError,
     raised |-> NoError]

\* A method choice that falls back to the driver's default whenever the
\* requested method is not one of the driver's.
ChooseMethodFresh(current, requested) ==
    IF requested \in connect_methods THEN requested
    ELSE DEFAULT_CONNECT_METHOD

\* The method Device.connect leaves in self._connect_method: the requested
\* one if the driver has it, else the one already set, else the default.
ChooseMethod(current, requested) ==
    IF requested \in connect_methods THEN requested
    ELSE IF current = NoMethod THEN DEFAULT_CONNECT_METHOD
    ELSE current

\* Device.connect up to the first self._connect.
Connect(requested) ==
    /\ iosdev.pc = "idle"
    /\ iosdev.connects < MaxConnects
    /\ LET d == [iosdev EXCEPT !.connects = @ + 1, !.requested = requested,
                            !.before = iosdev.connect_method,
                            !.attempts = << >>, !.last_exc = NoError,
                            !.raised = NoError]
       IN iosdev' =
              IF iosdev.addresses = 0
              THEN [d EXCEPT !.raised = [kind |-> "DeviceWithoutAddressError",
                                         retry |-> FALSE, address |-> 0]]
              ELSE [d EXCEPT !.pc = "connecting",
                             !.connect_method =
                                  ChooseMethod(iosdev.connect_method, requested)]
    /\ UNCHANGED besideDevice

\* The loop's end: connected on success, else last_exc is raised.
Connected(d, success) ==
    IF success THEN [d EXCEPT !.pc = "idle", !.connected = TRUE]
    ELSE [d EXCEPT !.pc = "idle", !.raised = d.last_exc]

\* A loop that gives up at the first address whose error is not to be
\* retried.
AttemptStopsWhenFinal(o) ==
    /\ iosdev.pc = "connecting"
    /\ LET a == Len(iosdev.attempts) + 1
           d == [iosdev EXCEPT !.attempts = Append(@, o)]
       IN iosdev' =
              CASE o = "ok" -> Connected(d, TRUE)
                [] o \in Handled ->
                     LET e == [d EXCEPT !.last_exc = LastExc(o, a)]
                     IN IF a < iosdev.addresses /\ LastExc(o, a).retry
                        THEN e ELSE Connected(e, FALSE)
                [] OTHER ->
                     [d EXCEPT !.pc = "idle",
                               !.raised = [kind |-> o, retry |-> FALSE,
                                           address |-> a]]
    /\ UNCHANGED besideDevice

\* A loop that goes on to the next address after a success.
AttemptGoesOn(o) ==
    /\ iosdev.pc = "connecting"
    /\ LET a == Len(iosdev.attempts) + 1
           d == [iosdev EXCEPT !.attempts = Append(@, o)]
       IN iosdev' =
              CASE o = "ok" ->
                     IF a < iosdev.addresses THEN [d EXCEPT !.connected = TRUE]
                     ELSE Connected(d, TRUE)
                [] o \in Handled ->
                     LET e == [d EXCEPT !.last_exc = LastExc(o, a)]
                     IN IF a < iosdev.addresses THEN e
                        ELSE Connected(e, iosdev.connected)
                [] OTHER ->
                     [d EXCEPT !.pc = "idle",
                               !.raised = [kind |-> o, retry |-> FALSE,
                                           address |-> a]]
    /\ UNCHANGED besideDevice

\* One turn of the loop over self.addresses: self._connect for the next
\* address ends with o.  A success leaves the loop, a handled error is kept
\* in last_exc and the loop goes on, any other error leaves Device.connect.
Attempt(o) ==
    /\ iosdev.pc = "connecting"
    /\ LET a == Len(iosdev.attempts) + 1
           d == [iosdev EXCEPT !.attempts = Append(@, o)]
       IN iosdev' =
              CASE o = "ok" -> Connected(d, TRUE)
                [] o \in Handled ->
                     LET e == [d EXCEPT !.last_exc = LastExc(o, a)]
                     IN IF a < iosdev.addresses THEN e ELSE Connected(e, FALSE)
                [] OTHER ->
                     [d EXCEPT !.pc = "idle",
                               !.raised = [kind |-> o, retry |-> FALSE,
                                           address |-> a]]
    /\ UNCHANGED besideDevice

\* Device.disconnect
DeviceDisconnect ==
    /\ iosdev.pc = "idle"
    /\ iosdev.connected
    /\ iosdev' = [iosdev EXCEPT !.connected = FALSE]
    /\ UNCHANGED besideDevice

----------------------------------------------------------------------------
(* devices/dev_ios.py: IosDevice._connect for one address, from the moment   *)
(* the transport is connected: _login, _get_prompt, _enable, _disable_pager. *)
(* Every expect is a step.  The writes are taken to succeed.                 *)

\* The loop of _enable is followed for at most this many turns.
MaxTurns == 4

\* No IosDevice._connect is under way.
NoLogin == [pc |-> "none"]

\* IosDevice._connect after self._transport.connect(credential) returned,
\* with the method used and whether the credential asks for enable.
NewLogin(method, enable) ==
    [pc |-> IF method = "telnet" THEN "login" ELSE "get_prompt",
     connect_method |-> method, enable |-> enable, sent_password |-> FALSE,
     turns |-> 0, timeouts |-> 0, raised |-> "None"]

\* The dialogue ends with the error e.
LoginRaises(l, e) == [l EXCEPT !.pc = "raised", !.raised = e]

\* IosDevice._login over telnet: the login prompt, the password prompt and
\* the prompt are expected in turn; anything else is a ConnectError.
Login(i) ==
    /\ login.pc \in {"login", "password", "logged_in"}
    /\ login' =
           IF i # "expected" THEN LoginRaises(login, "ConnectError")
           ELSE [login EXCEPT !.pc = CASE login.pc = "login" -> "password"
                                       [] login.pc = "password" -> "logged_in"
                                       [] OTHER -> "get_prompt"]
    /\ UNCHANGED besideLogin

\* IosDevice._get_prompt: the expect lists the prompt only, so EOF and
\* TIMEOUT are raised by pexpect.
GetPrompt(i) ==
    /\ login.pc = "get_prompt"
    /\ login' =
           IF i # "prompt" THEN LoginRaises(login, i)
           ELSE [login EXCEPT !.pc = IF login.enable THEN "enable_prompt"
                                     ELSE "disable_pager"]
    /\ UNCHANGED besideLogin

\* IosDevice._enable up to the loop: the prompt is found and 'enable' is
\* written, or EnableError.
EnablePrompt(i) ==
    /\ login.pc = "enable_prompt"
    /\ login' =
           IF i # "prompt" THEN LoginRaises(login, "EnableError")
           ELSE [login EXCEPT !.pc = "enable"]
    /\ UNCHANGED besideLogin

\* One turn of the loop of _enable: the expect returns the password prompt
\* (0), the device's 'timeout expired' (1), '% Bad secrets' (2), a prompt
\* (3, enabled or not), pexpect.TIMEOUT (4) or pexpect.EOF (5).
Enable(i) ==
    /\ login.pc = "enable"
    /\ i \in {"password", "timeout expired", "prompt>"} =>
           login.turns < MaxTurns
    /\ LET l == [login EXCEPT !.turns = @ + 1]
       IN login' =
              CASE i = "password" -> [l EXCEPT !.sent_password = TRUE]
                [] i = "timeout expired" ->
                       [l EXCEPT !.timeouts = @ + 1]
                [] i = "% Bad secrets" -> LoginRaises(l, "AuthenticationError")
                [] i = "prompt#" -> [l EXCEPT !.pc = "disable_pager"]
                [] i = "prompt>" ->
                       IF login.sent_password
                       THEN [l EXCEPT !.pc = "disable_pager"]
                       ELSE l
                [] i = TIMEOUT ->
                       LoginRaises([l EXCEPT !.timeouts = @ + 1],
                                   "EnableError")
                [] i = EOF -> LoginRaises(l, "EnableError")
    /\ UNCHANGED besideLogin

\* IosDevice._disable_pager: the command 'terminal length 0' returns or
\* raises CommandError.
DisablePager(i) ==
    /\ login.pc = "disable_pager"
    /\ login' =
           IF i = "returned" THEN [login EXCEPT !.pc = "connected"]
           ELSE LoginRaises(login, "CommandError")
    /\ UNCHANGED besideLogin

----------------------------------------------------------------------------
(* controller.py: Controller.request with Controller.get_session and         *)
(* Controller.create_session, the populate callback of the session cache.    *)
(* The keys of the cache are the device names of the requests.               *)

\* No device_name among the arguments of a request.
NoName == 0

\* DeviceManager.device_info(name): the names some provider resolves.
Resolved == controller.devices

\* No Controller serves requests.
NoController == [pc |-> "none"]

\* Controller.__init__, with the devices its device manager knows.
NewController(devices) ==
    [pc |-> "idle", devices |-> devices, device_name |-> NoName,
     session |-> Absent, raised |-> "None", io |-> FALSE]

\* Controller.request up to the session: the error it raises, or the session
\* of the cache c it goes on with.  An error of the populate callback is
\* create_session's NoSuchDeviceError; any other is the expire callback's.
GotSession(c, op, k, v) ==
    IF c.raised # "none"
    THEN [NewController(Resolved) EXCEPT
             !.device_name = k,
             !.raised = IF k \in Resolved THEN c.raised
                        ELSE "NoSuchDeviceError"]
    ELSE [NewController(Resolved) EXCEPT !.pc = "session", !.device_name = k,
                               !.session = c.data[k]]

\* What Controller.request does with the cache that self.sessions[key] left.
ControllerApply(c, op, k, v) ==
    /\ LruStore(c, op, k, v)
    /\ controller' = GotSession(c, op, k, v)
    /\ UNCHANGED besideController

\* A request for which create_session makes a session whatever the name.
ControllerRequestCreatesAlways(name, eo) ==
    /\ controller.pc = "idle"
    /\ name # NoName
    /\ GetItemWith(name, "value", eo, ControllerApply)

\* Controller.request up to the try statement: get_session raises
\* NoSessionCreatedError when there is no device_name, else it looks the key
\* up in self.sessions, which calls create_session for a key not cached.
ControllerRequest(name, eo) ==
    /\ controller.pc = "idle"
    /\ IF name = NoName
       THEN /\ controller' = [NewController(Resolved) EXCEPT
                                 !.raised = "NoSessionCreatedError"]
            /\ UNCHANGED lvars
            /\ UNCHANGED besideController
       ELSE GetItemWith(name,
                        IF name \in Resolved THEN "value" ELSE "Exception",
                        eo, ControllerApply)

\* Controller.request from the try statement on: without a credential for
\* the device it raises NoMatchingCredentialError, else the credential is
\* given to the session and session.request talks to the device.
ServeRequest(o) ==
    /\ controller.pc = "session"
    /\ controller' = [controller EXCEPT
                         !.pc = "idle",
                         !.io = o # "NoMatchingCredentialError",
                         !.raised = IF o = "response" THEN "None" ELSE o]
    /\ UNCHANGED lvars
    /\ UNCHANGED besideController

----------------------------------------------------------------------------
(* notch/agent/credential.py: Credential and Credentials.  A regular       *)
(* expression is the sequence of its tokens, a hostname is a sequence of   *)
(* characters or None.                                                      *)

\* The longest credentials list.
MaxCredentials == 2

\* The longest hostname.
MaxHostname == 2

\* The characters of a hostname, and the lower case of each.
Chars == {"a", "A", "b"}

Lower(ch) == IF ch = "A" THEN "a" ELSE ch

\* The tokens of a regular expression: a literal, any character, any run
\* of characters, start of string and end of string.
Tokens == {"a", "b", ".", ".*", "^", "$"}

\* The regexp attributes of the credentials file.
Regexps ==
    { << ".*" >>, << "a", ".*" >>, << "^", "a", "$" >>, << "b" >>,
      << "a", "." >>, << "^", ".*", "b" >> }

\* hostname: None or a str.
NoHostname == [none |-> TRUE, str |-> << >>]

Str(chars) == [none |-> FALSE, str |-> chars]

StrsUpTo(n) == UNION { [1..m -> Chars] : m \in 0..n }

Hostnames == {NoHostname} \cup { Str(chars) : chars \in StrsUpTo(MaxHostname) }

\* not hostname
Falsy(hostname) == hostname.none \/ hostname.str = << >>

\* Credential.__init__: '^' is put in front and '$' behind unless the
\* string starts and ends with them.
Anchor(regexp) ==
    LET front == IF regexp # << >> /\ Head(regexp) = "^"
                 THEN regexp ELSE << "^" >> \o regexp
    IN  IF front[Len(front)] = "$" THEN front ELSE Append(front, "$")

NewCredential(regexp) ==
    [regexp_string |-> Anchor(regexp), regexp |-> Anchor(regexp)]

\* regexp.match(str) of a pattern compiled with re.I: the pattern matches
\* at the beginning of the string; first says that no character was
\* consumed yet.  The strings here hold no newline.
RECURSIVE Match(_, _, _)
Match(pattern, str, first) ==
    IF pattern = << >> THEN TRUE
    ELSE LET t == Head(pattern)
             rest == Tail(pattern)
         IN  CASE t = "^" -> first /\ Match(rest, str, first)
               [] t = "$" -> str = << >> /\ Match(rest, str, first)
               [] t = ".*" ->
                      \E n \in 0..Len(str) :
                          Match(rest, SubSeq(str, n + 1, Len(str)),
                                first /\ n = 0)
               [] t = "." -> str # << >> /\ Match(rest, Tail(str), FALSE)
               [] OTHER ->
                      /\ str # << >>
                      /\ Lower(Head(str)) = Lower(t)
                      /\ Match(rest, Tail(str), FALSE)

\* Credential.matches
Matches(credential, hostname) ==
    IF Falsy(hostname) THEN FALSE
    ELSE Match(credential.regexp, hostname.str, TRUE)

\* No credentials store is in use.
NoCredentials == [pc |-> "none"]

\* Credentials.__init__ and YamlCredentials.load_credentials: one
\* Credential per block of the file, in the order of the file.
LoadCredentials(regexps) ==
    [credentials |-> [i \in 1..Len(regexps) |-> NewCredential(regexps[i])],
     pc |-> "loaded", hostname |-> NoHostname, returned |-> 0,
     raised |-> "None"]

\* for credential in self.credentials: the index of the credential that is
\* returned, from i on, or 0 when the loop ends.
RECURSIVE Lookup(_, _, _)
Lookup(credentials, hostname, i) ==
    IF i > Len(credentials) THEN 0
    ELSE IF Matches(credentials[i], hostname) THEN i
    ELSE Lookup(credentials, hostname, i + 1)

\* The lookup that returns any of the matching credentials.
GetCredentialAnyMatch(hostname) ==
    /\ creds.pc # "none"
    /\ \E i \in 0..Len(creds.credentials) :
           /\ i = 0 => \A j \in 1..Len(creds.credentials) :
                           ~ Matches(creds.credentials[j], hostname)
           /\ i # 0 => Matches(creds.credentials[i], hostname)
           /\ creds' = [creds EXCEPT
                           !.pc = "called",
                           !.hostname = hostname,
                           !.returned = i,
                           !.raised = IF i = 0
                                      THEN "NoMatchingCredentialError"
                                      ELSE "None"]
    /\ UNCHANGED besideCredentials

\* Credentials.get_credential: returned is the place in the list of the
\* Credential that is returned, 0 when the call raises.
GetCredential(hostname) ==
    /\ creds.pc # "none"
    /\ LET i == IF Falsy(hostname) THEN 0
                ELSE Lookup(creds.credentials, hostname, 1)
       IN  creds' = [creds EXCEPT
                        !.pc = "called",
                        !.hostname = hostname,
                        !.returned = i,
                        !.raised = IF i = 0
                                   THEN "NoMatchingCredentialError"
                                   ELSE "None"]
    /\ UNCHANGED besideCredentials

----------------------------------------------------------------------------
(* notch/agent/errors.py, notch/agent/handlers.py and                      *)
(* notch/client/client.py: an ApiError raised while the agent serves a     *)
(* request becomes a JSON-RPC fault, and the client names the fault.       *)

\* The subclasses of ApiError.
ApiErrorClasses ==
    {"AuthenticationError", "ConnectError", "CommandError", "DownloadError",
     "DeviceWithoutAddressError", "DisconnectError", "EnableError",
     "EOFError", "InvalidDeviceError", "InvalidModeError",
     "InvalidRequestError", "NoAddressesError", "NoMatchingCredentialError",
     "NoSuchDeviceError", "NoSuchVendorError", "NoSessionCreatedError",
     "UploadError"}

error_dictionary ==
    "ConnectError" :> 1 @@ "DisconnectError" :> 2 @@
    "InvalidDeviceError" :> 3 @@ "InvalidModeError" :> 4 @@
    "InvalidRequestError" :> 5 @@ "NoAddressesError" :> 6 @@
    "NoSuchVendorError" :> 7 @@ "NoSessionCreatedError" :> 8 @@
    "AuthenticationError" :> 9 @@ "CommandError" :> 10 @@
    "EOFError" :> 11 @@ "NoMatchingCredentialError" :> 12 @@
    "DownloadError" :> 13 @@ "UploadError" :> 14 @@
    "NoSuchDeviceError" :> 15 @@ "EnableError" :> 16

\* dict((v, k) for (k, v) in error_dictionary.items())
reverse_error_dictionary ==
    [v \in { error_dictionary[k] : k \in DOMAIN error_dictionary } |->
        CHOOSE k \in DOMAIN error_dictionary : error_dictionary[k] = v]

\* rpc.faults.internal_error: the code JSON-RPC reserves for an internal
\* error of the server.
internal_error == 0 - 32603

\* rpc_error_handler: rpc.faults knows the names of error_dictionary, which
\* the handlers' post adds to its codes.
rpc_error_handler(exc) ==
    IF exc \in DOMAIN error_dictionary
    THEN error_dictionary[exc]
    ELSE internal_error

\* The methods of NotchAPI that call the Controller.
ApiMethods ==
    {"command", "get_config", "set_config", "copy_file", "upload_file",
     "download_file", "delete_file", "lock", "unlock"}

\* No request is on its way.
NoRpc == [pc |-> "none"]

\* The agent waits for a request.
RpcIdle ==
    [pc |-> "idle", method |-> "None", exc |-> "None", code |-> 0,
     err_name |-> "None"]

\* A method of NotchAPI: self.controller.request raises exc, an ApiError,
\* and the method returns self.handle_exception(e), or it returns a result.
ApiMethod(method, exc) ==
    /\ rpc.pc \in {"idle", "result", "error"}
    /\ rpc' = [RpcIdle EXCEPT
                  !.pc = "responded",
                  !.method = method,
                  !.exc = exc,
                  !.code = IF exc = "None" THEN 0
                           ELSE rpc_error_handler(exc)]
    /\ UNCHANGED besideRpc

\* Connection._send_notch_api_request: jsonrpclib raises ProtocolError for
\* a fault, whose text holds the code, and the name of the error is looked
\* up in the reverse table.
SendNotchApiRequest ==
    /\ rpc.pc = "responded"
    /\ rpc' = IF rpc.exc = "None"
              THEN [rpc EXCEPT !.pc = "result"]
              ELSE [rpc EXCEPT
                       !.pc = "error",
                       !.err_name =
                           IF rpc.code \in DOMAIN reverse_error_dictionary
                           THEN reverse_error_dictionary[rpc.code]
                           ELSE "Unknown"]
    /\ UNCHANGED besideRpc

----------------------------------------------------------------------------
(* notch/client/client.py: the GreenPool of a Connection.  A green thread   *)
(* of the pool runs one _send_notch_api_request; GreenPool.spawn starts one *)
(* only while fewer than size are running.                                  *)

\* The green threads a caller can ask for at a time.
NumWorkers == 3
Workers == 1..NumWorkers

\* How _send_notch_api_request can end: with a result, with socket.error
\* 'too many open files' or another socket.error, or with another error.
SendOutcomes == {"result", "EMFILE", "ECONNREFUSED", "ProtocolError"}

\* No Connection is in use.
NoPool == [pc |-> "none"]

\* Connection.__init__: the pool is made with max_concurrency.  ended keeps
\* how the last request of each green thread ended, its result or error.
NewPool(max_concurrency) ==
    [pc |-> "open", max_concurrency |-> max_concurrency,
     size |-> max_concurrency, gt |-> [w \in Workers |-> "none"],
     ended |-> [w \in Workers |-> "None"]]

\* self._pool.running(), Connection.num_requests_running
NumRequestsRunning(p) == Cardinality({ w \in Workers : p.gt[w] = "running" })

\* self._pool.spawn(method, r) in _exec_requests: a green thread starts when
\* the pool has room, else the caller waits.
PoolSpawn(w) ==
    /\ pool.pc = "open"
    /\ pool.gt[w] = "none"
    /\ NumRequestsRunning(pool) < pool.size
    /\ pool' = [pool EXCEPT !.gt[w] = "running", !.ended[w] = "None"]
    /\ UNCHANGED besidePool

\* A request that fails with 'too many open files' and keeps its own green
\* thread in the count.
SendEndsCountsItself(w, o) ==
    /\ pool.pc = "open"
    /\ pool.gt[w] = "running"
    /\ pool' = [pool EXCEPT
                   !.gt[w] = "none",
                   !.ended[w] = o,
                   !.max_concurrency =
                       IF o = "EMFILE" THEN NumRequestsRunning(pool) ELSE @,
                   !.size =
                       IF o = "EMFILE" THEN NumRequestsRunning(pool) ELSE @]
    /\ UNCHANGED besidePool

\* _send_notch_api_request ends in green thread w, which ends with it: on
\* errno 24 max_concurrency becomes num_requests_running - 1 and the pool is
\* resized to it.
SendEnds(w, o) ==
    /\ pool.pc = "open"
    /\ pool.gt[w] = "running"
    /\ pool' = [pool EXCEPT
                   !.gt[w] = "none",
                   !.ended[w] = o,
                   !.max_concurrency =
                       IF o = "EMFILE" THEN NumRequestsRunning(pool) - 1
                       ELSE @,
                   !.size =
                       IF o = "EMFILE" THEN NumRequestsRunning(pool) - 1
                       ELSE @]
    /\ UNCHANGED besidePool

----------------------------------------------------------------------------
(* src/lru.py: the LruDict that keeps a dirty flag *)

\* The keys read and written, and the size of the cache.
NumDirtyKeys == 2
DirtyKeys == 1..NumDirtyKeys
DirtyMaximumSize == 2

\* The callables a user installs: two populate callbacks, two expire
\* callbacks, and None for no expire callback.
PopulateCallbacks == {"callback1", "callback2"}
ExpireCallbacks == {"None", "expire", "expire_new"}

\* populate_callback(key) of callback cb; by "set" it is a value stored with
\* __setitem__, by "None" the key is not in _data.
DirtyValue(cb, key) == [by |-> cb, key |-> key]
NotCached == [by |-> "None", key |-> 0]

\* No LruDict of src/lru.py is in use.
NoDirtyLru == [pc |-> "none"]

\* LruDict.__init__.  stale holds the keys whose cached entry dates from
\* before the last change of a callback, ret the last read and whether its
\* key was such a key, called the last expire callback that ran.
NewDirtyLru(populate, expire) ==
    [pc |-> "open", populate_callback |-> populate,
     expire_callback |-> expire, heap |-> << >>,
     data |-> [k \in DirtyKeys |-> NotCached], dirty |-> FALSE,
     stale |-> {}, called |-> "None",
     ret |-> [key |-> 0, value |-> NotCached, stale |-> FALSE,
              populate |-> populate]]

\* LruDict._expire_item
DirtyExpire(l, key) ==
    [l EXCEPT !.called = IF l.expire_callback # "None"
                            /\ l.data[key] # NotCached
                         THEN l.expire_callback ELSE @,
              !.data[key] = NotCached,
              !.stale = @ \ {key}]

\* LruDict._push_and_set: HeapItems carry the time of their making, so the
\* heap is the list of keys in the order they were pushed.
DirtyPushAndSet(l, key, value) ==
    LET e == IF Len(l.heap) < DirtyMaximumSize
             THEN [l EXCEPT !.heap = Append(@, key)]
             ELSE DirtyExpire([l EXCEPT !.heap = Append(Tail(@), key)],
                              Head(l.heap))
    IN  [e EXCEPT !.data[key] = value]

\* LruDict.__getitem__
DirtyGetItem(key) ==
    /\ dirtylru.pc = "open"
    /\ LET l == dirtylru
           p == IF l.data[key] = NotCached \/ l.dirty
                THEN DirtyPushAndSet(l, key,
                                     DirtyValue(l.populate_callback, key))
                ELSE l
       IN  dirtylru' = [p EXCEPT
                           !.dirty = FALSE,
                           !.stale = @ \ {key},
                           !.ret = [key |-> key, value |-> p.data[key],
                                    stale |-> key \in l.stale,
                                    populate |-> l.populate_callback]]
    /\ UNCHANGED besideDirtyLru

\* LruDict.__setitem__
DirtySetItem(key) ==
    /\ dirtylru.pc = "open"
    /\ dirtylru' = [DirtyPushAndSet(dirtylru, key, DirtyValue("set", key))
                       EXCEPT !.stale = @ \ {key}]
    /\ UNCHANGED besideDirtyLru

\* LruDict.expire_item: the oldest heap item is popped and its key deleted
\* from _data, a KeyError when the key is not there.
DirtyExpireItem ==
    /\ dirtylru.pc = "open"
    /\ dirtylru.heap # << >>
    /\ dirtylru' = [dirtylru EXCEPT
                       !.heap = Tail(@),
                       !.data[Head(dirtylru.heap)] = NotCached,
                       !.stale = @ \ {Head(dirtylru.heap)}]
    /\ UNCHANGED besideDirtyLru

\* The cached keys.
DirtyCached(l) == { k \in DirtyKeys : l.data[k] # NotCached }

\* LruDict._set_populate_callback, the setter of populate_callback
DirtySetPopulateCallback(cb) ==
    /\ dirtylru.pc = "open"
    /\ dirtylru' = [dirtylru EXCEPT !.populate_callback = cb,
                                    !.dirty = TRUE,
                                    !.stale = DirtyCached(dirtylru)]
    /\ UNCHANGED besideDirtyLru

\* LruDict._set_expire_callback, the setter of expire_callback
DirtySetExpireCallback(cb) ==
    /\ dirtylru.pc = "open"
    /\ dirtylru' = [dirtylru EXCEPT !.expire_callback = cb,
                                    !.dirty = TRUE,
                                    !.stale = DirtyCached(dirtylru)]
    /\ UNCHANGED besideDirtyLru


----------------------------------------------------------------------------
(* The agent under its handler threads: handlers.py puts each RPC on a      *)
(* thread pool, and every thread runs Controller.request on the one        *)
(* Controller: get_session reads self.sessions, session.request talks to   *)
(* the device.                                                              *)

\* The handler threads, the session keys they ask for, the Session objects
\* create_session makes at most, and the size of the session cache
\* (MAX_ACTIVE_SESSIONS, scaled down).
NumThreads == 2
Threads == 1..NumThreads
NumSessionKeys == 2
SessionKeys == 1..NumSessionKeys
MaxSessionObjects == 3
MaxActiveSessions == 1

\* No agent is running.
NoServing == [pc |-> "none"]

\* A thread that serves no request.
IdleThread == [pc |-> "idle", key |-> Absent, obj |-> Absent, raised |-> "None"]

\* Controller.__init__ and the thread pool.  data and heap are the session
\* cache, a Session object is the number of its creation, connected holds
\* the connected ones, cut is the last session.disconnect() that expire_session
\* or stop called on a connected session, and whether a request then held the
\* session's lock.
NewServing ==
    [pc |-> "running", data |-> [k \in SessionKeys |-> Absent],
     heap |-> << >>, made |-> 0, connected |-> {},
     th |-> [t \in Threads |-> IdleThread],
     cut |-> [by |-> "none", obj |-> Absent, busy |-> FALSE]]

\* A Session.request on Session object o is between acquire and release.
InRequest(s, o) == \E t \in Threads : s.th[t].pc = "in_request" /\ s.th[t].obj = o

\* Session.disconnect as expire_session and stop call it, without the lock.
SessionDisconnect(s, o, by) ==
    IF o \in s.connected
    THEN [s EXCEPT !.connected = @ \ {o},
                   !.cut = [by |-> by, obj |-> o, busy |-> InRequest(s, o)]]
    ELSE s

\* LruDict._expire_item with expire_session as the callback
ExpireSession(s, key) ==
    IF s.data[key] = Absent THEN s
    ELSE [SessionDisconnect(s, s.data[key], "expire") EXCEPT
             !.data[key] = Absent]

\* get_session in thread t: self.sessions[key] finds the key, or misses it
\* and calls create_session.
GetSession(t, key) ==
    /\ serving.pc = "running"
    /\ serving.th[t].pc = "idle"
    /\ serving' = IF serving.data[key] = Absent
                  THEN [serving EXCEPT !.th[t] = [IdleThread EXCEPT
                                                     !.pc = "create_session",
                                                     !.key = key]]
                  ELSE [serving EXCEPT !.th[t] = [IdleThread EXCEPT
                                                     !.pc = "session",
                                                     !.key = key,
                                                     !.obj = serving.data[key]]]
    /\ UNCHANGED besideServing

\* create_session returns a new Session to __getitem__, and _push_and_set
\* stores it: the oldest heap item is expired when the heap is full.
CreateSession(t) ==
    /\ serving.pc = "running"
    /\ serving.th[t].pc = "create_session"
    /\ serving.made < MaxSessionObjects
    /\ LET key == serving.th[t].key
           new == serving.made + 1
           s == [serving EXCEPT !.made = new]
           e == IF Len(s.heap) < MaxActiveSessions
                THEN [s EXCEPT !.heap = Append(@, key)]
                ELSE ExpireSession([s EXCEPT !.heap = Append(Tail(@), key)],
                                   Head(s.heap))
       IN  serving' = [e EXCEPT !.data[key] = new, !.th[t].pc = "return"]
    /\ UNCHANGED besideServing

\* return self.data[key]: a KeyError makes get_session return None and
\* Controller.request raise NoSessionCreatedError.
GetSessionReturn(t) ==
    /\ serving.pc = "running"
    /\ serving.th[t].pc = "return"
    /\ LET v == serving.data[serving.th[t].key] IN
       serving' = IF v = Absent
                  THEN [serving EXCEPT !.th[t] = [IdleThread EXCEPT
                                           !.raised = "NoSessionCreatedError"]]
                  ELSE [serving EXCEPT !.th[t].pc = "session",
                                       !.th[t].obj = v]
    /\ UNCHANGED besideServing

\* session.request in thread t takes the session's lock, connects the
\* session and calls the device method.
SessionRequest(t) ==
    /\ serving.pc = "running"
    /\ serving.th[t].pc = "session"
    /\ ~InRequest(serving, serving.th[t].obj)
    /\ serving' = [serving EXCEPT !.th[t].pc = "in_request",
                                  !.connected = @ \cup {serving.th[t].obj}]
    /\ UNCHANGED besideServing

\* The device method returns, the lock is released and the RPC is answered.
SessionRequestReturn(t) ==
    /\ serving.pc = "running"
    /\ serving.th[t].pc = "in_request"
    /\ serving' = [serving EXCEPT !.th[t] = IdleThread]
    /\ UNCHANGED besideServing

\* The sessions Controller.stop disconnects, one after the other.
RECURSIVE StopSessions(_, _)
StopSessions(s, keys) ==
    IF keys = {} THEN s
    ELSE LET k == CHOOSE x \in keys : TRUE
             d == IF s.data[k] = Absent THEN s
                  ELSE SessionDisconnect(s, s.data[k], "stop")
         IN  StopSessions(d, keys \ {k})

\* Controller.stop
ControllerStop ==
    /\ serving.pc = "running"
    /\ serving' = StopSessions(serving, SessionKeys)
    /\ UNCHANGED besideServing


\* Neither a credentials store nor the RPC layer is in use.
AgentIdle ==
    /\ creds = NoCredentials
    /\ rpc = NoRpc
    /\ pool = NoPool
    /\ dirtylru = NoDirtyLru
    /\ serving = NoServing

\* No device object of this section is in use.
DevicesIdle ==
    /\ transport = NoCommand
    /\ iosdev = NoDeviceObject
    /\ login = NoLogin
    /\ controller = NoController
    /\ AgentIdle

----------------------------------------------------------------------------
(* The specifications *)

\* The devices a session is created for: a device, or none.
Devices == {"xr1.foo", NoDevice}

SessionInit(devs) ==
    /\ \E dev \in devs : session = NewSession(dev)
    /\ device = NewDevice
    /\ exclusive = NoTask
    /\ now = StartTime
    /\ pc = [t \in Tasks |-> "ready"]
    /\ loc = [t \in Tasks |-> NoLocals]
    /\ calls = [t \in Tasks |-> << >>]
    /\ outcome = [t \in Tasks |-> "none"]
    /\ sweeper = "scheduled"
    /\ auth_credential = NoCredential
    /\ waiting = << >>

\* A session next to Controller.sessions, a cache whose entries do not age.
Init ==
    /\ SessionInit(Devices)
    /\ LruInit(FALSE)
    /\ ClientInit
    /\ lb = NoTransport
    /\ DevicesIdle

\* A cache on its own whose entries do not age, as the Controller makes it.
InitLru ==
    /\ SessionInit({"xr1.foo"})
    /\ LruInit(FALSE)
    /\ ClientInit
    /\ lb = NoTransport
    /\ DevicesIdle

\* A cache on its own whose entries age.
InitLruAge ==
    /\ SessionInit({"xr1.foo"})
    /\ LruInit(TRUE)
    /\ ClientInit
    /\ lb = NoTransport
    /\ DevicesIdle

\* A Connection on its own.
InitClient ==
    /\ SessionInit({"xr1.foo"})
    /\ LruInit(FALSE)
    /\ ClientInit
    /\ lb = NoTransport
    /\ DevicesIdle

\* One step of task t.
TaskStep(t) ==
    \/ ConnectCall(t)
    \/ \E o \in ConnectOutcomes : ConnectReturn(t, o)
    \/ DisconnectCall(t)
    \/ \E o \in DisconnectOutcomes : DisconnectReturn(t, o)
    \/ \E cred \in Credentials \cup {NoCredential} : SetCredentialCall(t, cred)
    \/ \E o \in DisconnectOutcomes : SetCredentialDisconnectReturn(t, o)
    \/ \E o \in ConnectOutcomes : SetCredentialConnectReturn(t, o)
    \/ \E method \in Methods : RequestCall(t, method)
    \/ RequestAcquire(t)
    \/ \E o \in ConnectOutcomes : RequestConnectReturn(t, o)
    \/ \E o \in MethodOutcomes : RequestExecReturn(t, o)
    \/ \E o \in DisconnectOutcomes : RequestDisconnectReturn(t, o)
    \/ \E o \in ConnectOutcomes : RequestReconnectReturn(t, o)
    \/ \E o \in MethodOutcomes : RequestRetryReturn(t, o)

\* One caller uses the session, one operation after the other.
NextSeq ==
    \/ TaskStep("r1")
    \/ Tick

SpecSeq == Init /\ [][NextSeq]_vars

\* The credential Controller.request assigns before each request:
\* credentials.get_credential(device_name) returns the store's object.
StoreCredential == CredA

\* One step of a task that serves Controller.request.
ServeStep(t) ==
    \/ SetCredentialCall(t, StoreCredential)
    \/ \E method \in Methods : RequestCall(t, method)
    \/ RequestAcquire(t)
    \/ \E o \in ConnectOutcomes : RequestConnectReturn(t, o)
    \/ \E o \in MethodOutcomes : RequestExecReturn(t, o)
    \/ \E o \in DisconnectOutcomes : RequestDisconnectReturn(t, o)
    \/ \E o \in ConnectOutcomes : RequestReconnectReturn(t, o)
    \/ \E o \in MethodOutcomes : RequestRetryReturn(t, o)

\* Several request tasks and the idle sweeper use the session.
Next ==
    \/ \E t \in Tasks : ServeStep(t)
    \/ SweeperRun
    \/ \E o \in DisconnectOutcomes : SweeperDisconnectReturn(o)
    \/ Tick

Spec == Init /\ [][Next]_vars

\* A request that has been called goes on: the lock is taken when it is
\* free and the device's calls come back.
RequestProgress(t) ==
    \/ RequestAcquire(t)
    \/ \E o \in ConnectOutcomes : RequestConnectReturn(t, o)
    \/ \E o \in MethodOutcomes : RequestExecReturn(t, o)
    \/ \E o \in DisconnectOutcomes : RequestDisconnectReturn(t, o)
    \/ \E o \in ConnectOutcomes : RequestReconnectReturn(t, o)
    \/ \E o \in MethodOutcomes : RequestRetryReturn(t, o)

\* eventlet runs the sweeper it has spawned once its wait is over, a
\* device.disconnect the sweeper has called comes back, and so do the calls
\* of the requests.
SpecFair ==
    /\ Init
    /\ [][Next]_vars
    /\ WF_vars(SweeperRun)
    /\ WF_vars(\E o \in DisconnectOutcomes : SweeperDisconnectReturn(o))
    /\ \A t \in Tasks : WF_vars(RequestProgress(t))

\* The device calls of a request come back.
RequestReturns(t) ==
    \/ \E o \in ConnectOutcomes : RequestConnectReturn(t, o)
    \/ \E o \in MethodOutcomes : RequestExecReturn(t, o)
    \/ \E o \in DisconnectOutcomes : RequestDisconnectReturn(t, o)
    \/ \E o \in ConnectOutcomes : RequestReconnectReturn(t, o)
    \/ \E o \in MethodOutcomes : RequestRetryReturn(t, o)

\* The tasks that serve Controller.request, which alone take the lock.
NextLock == \E t \in Tasks : ServeStep(t)

\* The device calls of the requests terminate, and a thread blocked in
\* self._exclusive.acquire() is woken by a release: a waiter that finds the
\* lock free again and again gets it.
SpecLock ==
    /\ Init
    /\ [][NextLock]_vars
    /\ \A t \in Tasks : WF_vars(RequestReturns(t))
    /\ \A t \in Tasks : SF_vars(RequestAcquire(t))


\* The callers of one LruDict.
NextLru ==
    \/ \E k \in Keys, po \in PopulateOutcomes, eo \in ExpireOutcomes :
           GetItem(k, po, eo)
    \/ \E k \in Keys, v \in SetValues, eo \in ExpireOutcomes :
           SetItem(k, v, eo)
    \/ \E eo \in ExpireOutcomes : ExpireItem(eo)
    \/ \E cb \in Callbacks : SetPopulateCallback(cb)
    \/ LruTick

SpecLru == InitLru /\ [][NextLru]_vars

\* A caller that sets keys, reads them back and expires them.
NextLruWrite ==
    \/ \E k \in Keys, v \in WriteValues, eo \in ExpireOutcomes :
          SetItem(k, v, eo)
    \/ \E k \in Keys : Get(k)
    \/ \E eo \in ExpireOutcomes : ExpireItem(eo)
    \/ LruTick

SpecLruWrite == InitLru /\ [][NextLruWrite]_vars

\* A transport on its own, with the policy given.
InitTransport(policy) ==
    /\ SessionInit({"xr1.foo"})
    /\ LruInit(FALSE)
    /\ ClientInit
    /\ TransportInit(policy)
    /\ DevicesIdle

\* The callers of a transport and of a generator of its policy.
NextTransport ==
    \/ Iter
    \/ IterNext
    \/ \E b \in Backends : TransportRequest(b)
    \/ \E o \in TransportOutcomes : TransportResponse(o)
    \/ TransportTick

SpecRoundRobin == InitTransport("RoundRobinPolicy") /\ [][NextTransport]_vars

\* The callers of a transport with the lowest-latency policy.
NextLowestLatency ==
    \/ \E b \in Backends : TransportRequest(b)
    \/ \E o \in TransportOutcomes : TransportResponse(o)
    \/ TransportTick

SpecLowestLatency ==
    InitTransport("LowestLatencyPolicy") /\ [][NextLowestLatency]_vars

\* A connected device transport on its own.
InitCommand ==
    /\ SessionInit({"xr1.foo"})
    /\ LruInit(FALSE)
    /\ ClientInit
    /\ lb = NoTransport
    /\ \E strip_ansi \in BOOLEAN :
           transport = [TransportReady EXCEPT !.strip_ansi = strip_ansi]
    /\ iosdev = NoDeviceObject
    /\ login = NoLogin
    /\ controller = NoController
    /\ AgentIdle

\* The commands of a device and what the transport's expects return.
NextCommand ==
    \/ \E pager, expect_command \in BOOLEAN, w \in WriteOutcomes :
           Command(pager, expect_command, w)
    \/ \E i \in {"prompt", EOF, TIMEOUT}, w \in WriteOutcomes :
           ExpectPrompt(i, w)
    \/ \E i \in {"echo", EOF, TIMEOUT} : ExpectEcho(i)
    \/ \E i \in {"pager", "prompt", EOF, TIMEOUT}, before \in Texts,
          w \in WriteOutcomes :
           ExpectResponse(i, before, w)

SpecCommand == InitCommand /\ [][NextCommand]_vars

\* A device object on its own, with any number of addresses.
InitDevice ==
    /\ SessionInit({"xr1.foo"})
    /\ LruInit(FALSE)
    /\ ClientInit
    /\ lb = NoTransport
    /\ transport = NoCommand
    /\ \E n \in 0..MaxAddresses : iosdev = NewIosDevice(n)
    /\ login = NoLogin
    /\ controller = NoController
    /\ AgentIdle

\* The callers of a device and the ends of its connection attempts.
NextDevice ==
    \/ \E requested \in RequestedMethods : Connect(requested)
    \/ \E o \in AttemptOutcomes : Attempt(o)
    \/ DeviceDisconnect

SpecDevice == InitDevice /\ [][NextDevice]_vars

\* IosDevice._connect on its own, with either method and credential.
InitLogin ==
    /\ SessionInit({"xr1.foo"})
    /\ LruInit(FALSE)
    /\ ClientInit
    /\ lb = NoTransport
    /\ transport = NoCommand
    /\ iosdev = NoDeviceObject
    /\ \E method \in connect_methods, enable \in BOOLEAN :
           login = NewLogin(method, enable)
    /\ controller = NoController
    /\ AgentIdle

\* What the device answers in the dialogue.
NextLogin ==
    \/ \E i \in {"expected", "other"} : Login(i)
    \/ \E i \in {"prompt", EOF, TIMEOUT} : GetPrompt(i)
    \/ \E i \in {"prompt", EOF, TIMEOUT} : EnablePrompt(i)
    \/ \E i \in {"password", "timeout expired", "% Bad secrets", "prompt#",
                 "prompt>", TIMEOUT, EOF} : Enable(i)
    \/ \E i \in {"returned", "CommandError"} : DisablePager(i)

SpecLogin == InitLogin /\ [][NextLogin]_vars

\* A Controller on its own, with an empty session cache and any devices.
InitController ==
    /\ SessionInit({"xr1.foo"})
    /\ LruInit(FALSE)
    /\ ClientInit
    /\ lb = NoTransport
    /\ transport = NoCommand
    /\ iosdev = NoDeviceObject
    /\ login = NoLogin
    /\ \E devices \in SUBSET Keys : controller = NewController(devices)
    /\ AgentIdle

\* The requests the agent's handlers pass to the Controller.
NextController ==
    \/ \E name \in Keys \cup {NoName}, eo \in {"ok", "Exception"} :
           ControllerRequest(name, eo)
    \/ \E o \in {"response", "NoMatchingCredentialError", "CommandError"} :
           ServeRequest(o)
    \/ LruTick

SpecController == InitController /\ [][NextController]_vars

\* A credentials store on its own, loaded from any credentials file.
InitCredentials ==
    /\ SessionInit({"xr1.foo"})
    /\ LruInit(FALSE)
    /\ ClientInit
    /\ lb = NoTransport
    /\ transport = NoCommand
    /\ iosdev = NoDeviceObject
    /\ login = NoLogin
    /\ controller = NoController
    /\ \E n \in 0..MaxCredentials :
           \E regexps \in [1..n -> Regexps] :
               creds = LoadCredentials(regexps)
    /\ rpc = NoRpc
    /\ pool = NoPool
    /\ dirtylru = NoDirtyLru
    /\ serving = NoServing

\* The lookups of the Controller.
NextCredentials == \E hostname \in Hostnames : GetCredential(hostname)

SpecCredentials == InitCredentials /\ [][NextCredentials]_vars

\* The error path from a method of the agent to the client's request.
InitRpc ==
    /\ SessionInit({"xr1.foo"})
    /\ LruInit(FALSE)
    /\ ClientInit
    /\ lb = NoTransport
    /\ transport = NoCommand
    /\ iosdev = NoDeviceObject
    /\ login = NoLogin
    /\ controller = NoController
    /\ creds = NoCredentials
    /\ rpc = RpcIdle
    /\ pool = NoPool
    /\ dirtylru = NoDirtyLru
    /\ serving = NoServing

NextRpc ==
    \/ \E method \in ApiMethods, exc \in ApiErrorClasses \cup {"None"} :
           ApiMethod(method, exc)
    \/ SendNotchApiRequest

SpecRpc == InitRpc /\ [][NextRpc]_vars

\* A Connection's pool on its own, made with any max_concurrency.
InitPool ==
    /\ SessionInit({"xr1.foo"})
    /\ LruInit(FALSE)
    /\ ClientInit
    /\ lb = NoTransport
    /\ transport = NoCommand
    /\ iosdev = NoDeviceObject
    /\ login = NoLogin
    /\ controller = NoController
    /\ creds = NoCredentials
    /\ rpc = NoRpc
    /\ \E max_concurrency \in 1..NumWorkers : pool = NewPool(max_concurrency)
    /\ dirtylru = NoDirtyLru
    /\ serving = NoServing

\* The caller's requests and how each of them ends.
NextPool ==
    \/ \E w \in Workers : PoolSpawn(w)
    \/ \E w \in Workers, o \in SendOutcomes : SendEnds(w, o)

SpecPool == InitPool /\ [][NextPool]_vars

\* An LruDict of src/lru.py on its own, made with any callbacks.
InitDirtyLru ==
    /\ SessionInit({"xr1.foo"})
    /\ LruInit(FALSE)
    /\ ClientInit
    /\ lb = NoTransport
    /\ transport = NoCommand
    /\ iosdev = NoDeviceObject
    /\ login = NoLogin
    /\ controller = NoController
    /\ creds = NoCredentials
    /\ rpc = NoRpc
    /\ pool = NoPool
    /\ \E populate \in PopulateCallbacks, expire \in ExpireCallbacks :
           dirtylru = NewDirtyLru(populate, expire)
    /\ serving = NoServing

\* The reads, writes and callback changes of the cache's user.
NextDirtyLru ==
    \/ \E key \in DirtyKeys : DirtyGetItem(key)
    \/ \E key \in DirtyKeys : DirtySetItem(key)
    \/ DirtyExpireItem
    \/ \E cb \in PopulateCallbacks : DirtySetPopulateCallback(cb)
    \/ \E cb \in ExpireCallbacks : DirtySetExpireCallback(cb)

SpecDirtyLru == InitDirtyLru /\ [][NextDirtyLru]_vars


\* An agent whose handler threads serve requests for any session keys.
InitServing ==
    /\ SessionInit({"xr1.foo"})
    /\ LruInit(FALSE)
    /\ ClientInit
    /\ lb = NoTransport
    /\ transport = NoCommand
    /\ iosdev = NoDeviceObject
    /\ login = NoLogin
    /\ controller = NoController
    /\ creds = NoCredentials
    /\ rpc = NoRpc
    /\ pool = NoPool
    /\ dirtylru = NoDirtyLru
    /\ serving = NewServing

\* The handler threads and the shutdown.
NextServing ==
    \/ \E t \in Threads, key \in SessionKeys : GetSession(t, key)
    \/ \E t \in Threads : CreateSession(t)
    \/ \E t \in Threads : GetSessionReturn(t)
    \/ \E t \in Threads : SessionRequest(t)
    \/ \E t \in Threads : SessionRequestReturn(t)
    \/ ControllerStop

SpecServing == InitServing /\ [][NextServing]_vars


\* The caller of one Connection, its workers and its timers.
NextClient ==
    \/ \E q \in Requests, cb \in BOOLEAN, ts \in BOOLEAN, known \in BOOLEAN,
          p \in {"responds", "silent"} : ExecRequest(q, cb, ts, known, p)
    \/ \E q \in Requests : WorkerStart(q)
    \/ \E q \in Requests, o \in Responses : PeerResponds(q, o)
    \/ SyncReturn
    \/ \E q \in Requests : TimeoutFires(q)
    \/ WaitAll
    \/ WaitAllReturn
    \/ KillAll

SpecClient == InitClient /\ [][NextClient]_vars

\* The hub runs a worker that was spawned and a timer that is due while the
\* caller waits.
SpecClientFair ==
    /\ InitClient
    /\ [][NextClient]_vars
    /\ WF_vars(\E q \in Requests : TimeoutFires(q))
    /\ \A q \in Requests : WF_vars(WorkerStart(q))

\* The callers of one LruDict with a maximum_age, and its age timers.
NextLruAge ==
    \/ NextLru
    \/ \E k \in Keys, eo \in ExpireOutcomes : TimerFires(k, eo)

SpecLruAge == InitLruAge /\ [][NextLruAge]_vars

----------------------------------------------------------------------------
(* Properties of the session *)

\* Task t is in Session.request between the lock's acquire and its release.
HoldsLock(t) ==
    pc[t] \in {"request_connect", "request_exec", "request_disconnect",
               "request_reconnect", "request_retry"}

\* Task t has a device operation of a request running.
DeviceOperation(t) == HoldsLock(t)

\* How many times x occurs in the sequence q.
Count(q, x) == Cardinality({i \in 1..Len(q) : q[i] = x})

\* The outcomes with which a disconnect or a connect of the error handler
\* ends a request.
HandlerFailures ==
    {"Error", "Exception", "ConnectError", "AuthenticationError",
     "NoMatchingCredentialError"}

\* C1: at any moment at most one Session.request call on the session is
\* between acquiring and releasing the exclusive lock, and the task that is
\* there is the one the lock records: so at most one device operation of a
\* request runs against the device.
C1_AtMostOneInRequest ==
    /\ \A t1, t2 \in Tasks : HoldsLock(t1) /\ HoldsLock(t2) => t1 = t2
    /\ \A t \in Tasks : HoldsLock(t) <=> exclusive = t

\* C1's case: one request runs a device operation while another waits for
\* the lock.
C1_Witness ==
    \E t1, t2 \in Tasks :
        /\ t1 # t2
        /\ pc[t1] = "request_exec"
        /\ pc[t2] = "request_acquire"

\* An insert has just completed: a populating read or a set that returned.
InsertCompleted ==
    /\ lru_last.op \in {"insert", "rewrite"}
    /\ lru_last.raised = "none"

\* C11: requests take the session's lock in the order in which they called
\* Session.request: the task that acquires the lock is the one that has
\* waited longest.
C11_SubmissionOrder ==
    [][\A t \in Tasks :
          (pc[t] = "request_acquire" /\ pc'[t] # "request_acquire")
              => waiting[1] = t]_vars

\* C2, as claimed: after each insert completes the cache holds at most
\* maximum_size entries.
C2_SizeAtMostMaximum ==
    InsertCompleted => Size(data) <= maximum_size

\* C2, as the code has it: after each insert completes the cache holds at
\* most maximum_size entries plus one for each expiry that the expire
\* callback has stopped by raising; so at most maximum_size while the
\* callback has let every expiry through.
C2_SizeAtMostMaximumPlusVetoes ==
    InsertCompleted => Size(data) <= maximum_size + vetoes

\* C2's case: an insert at capacity whose eviction the expire callback
\* refused has completed, and the cache is one over maximum_size.
C2_Witness ==
    /\ InsertCompleted
    /\ Len(heap) = maximum_size
    /\ vetoes = 1
    /\ Size(data) = maximum_size + 1

\* C2's other case: an insert at capacity whose eviction went through has
\* completed, and the cache is full.
C2_WitnessEvicted ==
    /\ InsertCompleted
    /\ Len(heap) = maximum_size
    /\ vetoes = 0
    /\ lru_now > 0
    /\ Size(data) = maximum_size

\* C3: within one Session.request call the device method is invoked at most
\* twice; a second invocation happens only after the first raised an
\* ApiError with retry set, and after the reconnect (a disconnect when
\* disconnect_on_error is set, then Session.connect with the stored
\* credential); when the first raised such an error the method is invoked
\* again unless that disconnect or reconnect itself failed; a failure of the
\* second invocation ends the request with that failure and nothing more is
\* called.
C3_AtMostOneRetry ==
    \A t \in Tasks :
        loc[t].op = "request" =>
            LET n == Count(calls[t], "invoke")
                e == loc[t].e
                k == Len(calls[t])
            IN /\ n <= 2
               /\ n = 2 => /\ e \in ApiErrors /\ retry(e)
                           /\ calls[t][k] = "invoke"
                           /\ calls[t][k - 1] = "device.connect"
                           /\ calls[t][k - 2] = "device.disconnect"
                           /\ calls[t][k - 3] = "invoke"
                           /\ loc[t].arg = session.credential
               /\ (pc[t] = "ready" /\ n = 2) =>
                      outcome[t] \in MethodOutcomes
               /\ (pc[t] = "ready" /\ n = 1 /\ e \in ApiErrors /\ retry(e)) =>
                      outcome[t] \in HandlerFailures

\* C3's case: the second invocation failed and the request ended with that
\* failure, after a disconnect and a reconnect.
C3_Witness ==
    \E t \in Tasks :
        /\ loc[t].op = "request"
        /\ pc[t] = "ready"
        /\ calls[t] = << "invoke", "device.disconnect", "device.connect",
                         "invoke" >>
        /\ outcome[t] = "CommandErrorRetry"

\* C4: the sweeper never calls disconnect on the session while a
\* Session.request call holds the session's lock.
C4_SweeperNeverInterrupts ==
    [][(sweeper = "scheduled" /\ sweeper' = "disconnecting")
           => exclusive = NoTask]_vars

\* C5: a session that is connected and idle, and whose last request is more
\* than MAX_IDLE_TIME ago, is eventually disconnected by the sweeper, unless
\* a request comes first.
C5_IdleSessionEventuallyDisconnected ==
    IdleExpired(session) ~> ~IdleExpired(session)

\* C6: whenever the session reports connected, the device's last successful
\* connect used the session's current credential.
C6_ConnectedWithCurrentCredential ==
    session.connected => auth_credential = session.credential

\* C7: an assignment of a credential different from the one the connected
\* session holds, once it has disconnected the device and attempted the
\* reconnect, has made exactly the calls disconnect, store, connect, has
\* returned normally and has left the new credential stored, the session
\* being connected only by that reconnect.
C7_AssignmentReturnsNormally ==
    \A t \in Tasks :
        (/\ loc[t].op = "setcred"
         /\ loc[t].old # NoCredential
         /\ loc[t].c # NoCredential
         /\ ~CredentialEq(loc[t].c, loc[t].old)
         /\ pc[t] = "ready"
         /\ Len(calls[t]) = 3) =>
            /\ calls[t] = << "device.disconnect", "store", "device.connect" >>
            /\ outcome[t] = "ok"
            /\ session.credential = loc[t].c
            /\ session.connected => auth_credential = loc[t].c

\* C8: an assignment of a credential equal, field by field, to the one the
\* session holds makes no device call, and leaves connected and the stored
\* credential as they were.
C8_EqualAssignmentIsNoOp ==
    \A t \in Tasks :
        (/\ loc[t].op = "setcred"
         /\ loc[t].old # NoCredential
         /\ loc[t].c # NoCredential
         /\ CredentialEq(loc[t].c, loc[t].old)) =>
            /\ Count(calls[t], "device.disconnect") = 0
            /\ Count(calls[t], "device.connect") = 0
            /\ pc[t] = "ready" =>
                   /\ session.connected = loc[t].try_to_reconnect
                   /\ CredentialEq(session.credential, loc[t].old)

\* C9: Session.connect on a connected session and Session.disconnect on a
\* disconnected session return without a device call and leave every field
\* of the session as it was.
C9_RepeatedConnectDisconnect ==
    \A t \in Tasks :
        /\ (loc[t].op = "connect" /\ loc[t].before.connected) =>
               /\ pc[t] = "ready"
               /\ calls[t] = << >>
               /\ outcome[t] = "ok"
               /\ session = loc[t].before
        /\ (loc[t].op = "disconnect" /\ ~loc[t].before.connected) =>
               /\ pc[t] = "ready"
               /\ calls[t] = << >>
               /\ outcome[t] = "ok"
               /\ session = loc[t].before

\* C9's case: connect() was called on a session that a device.connect had
\* connected.
C9_Witness ==
    \E t \in Tasks :
        /\ loc[t].op = "connect"
        /\ loc[t].before.connected
        /\ loc[t].before.time_last_connect # NoTime
        /\ pc[t] = "ready"

\* C9's other case: disconnect() was called on a session that a
\* device.disconnect had disconnected.
C9_WitnessDisconnect ==
    \E t \in Tasks :
        /\ loc[t].op = "disconnect"
        /\ ~loc[t].before.connected
        /\ loc[t].before.time_last_disconnect # NoTime
        /\ pc[t] = "ready"

\* C10: whenever no Session.request call holds the lock, the session's idle
\* flag is true.
C10_IdleWhenNoRequest ==
    (\A t \in Tasks : ~HoldsLock(t)) => session.idle

\* C10's case: a request ended by raising the device's error, after the
\* device method had run with idle cleared.
C10_Witness ==
    \E t \in Tasks :
        /\ loc[t].op = "request"
        /\ pc[t] = "ready"
        /\ outcome[t] \in {"CommandError", "DownloadError", "Exception"}
        /\ Count(calls[t], "invoke") >= 1
        /\ \A u \in Tasks : ~HoldsLock(u)

\* C12: when a cached key is set again and the set returns, reading the key
\* gives the value just set, and the cache holds no more entries than before
\* that set.
C12_RewriteReadsBack ==
    [][(lru_last'.op = "rewrite" /\ lru_last'.raised = "none"
            /\ lru_now' = lru_now)
          => /\ get(data', lru_last'.key, Absent) = lru_last'.value
             /\ Size(data') <= Size(data)]_vars

\* C12's case: a key that was cached has been set again, with the other
\* value, while the cache was full.
C12_Witness ==
    /\ lru_last.op = "rewrite"
    /\ lru_last.raised = "none"
    /\ lru_last.value = 8
    /\ Len(heap) = maximum_size
    /\ \E j \in Keys : data[j] = 7

\* The keys that are cached.
Cached(d) == {k \in Keys : d[k] # Absent}

\* The times of the heap items of key k: HeapItem.time of each write of k
\* whose item is still in the heap.
ItemTimes(h, k) == {h[i].time : i \in {n \in 1..Len(h) : h[n].key = k}}

\* The time of the last write of k, for a key with an item in the heap.
InsertionTime(h, k) ==
    CHOOSE t \in ItemTimes(h, k) : \A u \in ItemTimes(h, k) : u <= t

\* Key r is cached and no cached key with an item in the heap was written
\* before it.
OldestCached(r) ==
    /\ data[r] # Absent
    /\ ItemTimes(heap, r) # {}
    /\ \A j \in Cached(data) :
          ItemTimes(heap, j) # {}
              => InsertionTime(heap, r) <= InsertionTime(heap, j)

\* The calls of the expire callback that _expire_item(key) makes: one, with
\* the key and its value, when the key is cached.
ExpireCallbackCalls(d, k) ==
    IF d[k] # Absent THEN << << k, d[k] >> >> ELSE << >>

\* The calls of the expire callback that _push_and_set makes.
PushCallbackCalls ==
    IF Len(heap) < maximum_size THEN << >>
    ELSE ExpireCallbackCalls(data, heap[1].key)

\* C13: entries leave oldest first. While the expire callback has refused no
\* expiry: an insert of a new key into a cache that holds maximum_size
\* entries or more removes one entry, the oldest cached one, and calls the expire
\* callback once, with that entry's key and value; and expire_item() on a
\* cache that holds an entry returns the value of the oldest cached entry and
\* removes it.
C13_OldestLeavesFirst ==
    [][/\ \A k \in Keys :
             (/\ vetoes = 0
              /\ data[k] = Absent
              /\ Size(data) >= maximum_size
              /\ GetItem(k, "value", "ok"))
                 => \E r \in Keys :
                       /\ OldestCached(r)
                       /\ PushCallbackCalls = << << r, data[r] >> >>
                       /\ Cached(data') = (Cached(data) \ {r}) \cup {k}
       /\ (vetoes = 0 /\ Size(data) > 0 /\ ExpireItem("ok"))
             => /\ heap # << >>
                /\ OldestCached(heap[1].key)
                /\ data'[heap[1].key] = Absent]_vars

\* An insert whose eviction the expire callback refused returns.
RefusedInsert ==
    /\ lru_now' = lru_now
    /\ lru_last'.op \in {"insert", "rewrite"}
    /\ lru_last'.raised = "none"
    /\ lru_last'.refused

\* The insert of this step has stored its entry: a rewrite its key with its
\* value, an insert a key that was not cached with a value given for it.
NewEntryStored ==
    IF lru_last'.op = "rewrite"
    THEN data'[lru_last'.key] = lru_last'.value
    ELSE \E k \in Keys :
            /\ data[k] = Absent
            /\ data'[k] \in {Populate(populate_callback, k)} \cup SetValues
                              \cup WriteValues

\* C14, as claimed: when the expire callback refuses the expiry an insert
\* asks for, the refused entry is still cached with the value it had, and
\* the insert has stored its entry.
C14_RefusedEntryKeepsValue ==
    [][RefusedInsert
          => /\ data[Evicted] # Absent
             /\ data'[Evicted] = data[Evicted]
             /\ NewEntryStored]_vars

\* C14, as the code has it: the refused entry is still cached, with the
\* value it had unless the insert is a set of that same key, and then with
\* the value set; and the insert has stored its entry.
C14_RefusedEntryStays ==
    [][RefusedInsert
          => /\ data[Evicted] # Absent
             /\ data'[Evicted] # Absent
             /\ \/ data'[Evicted] = data[Evicted]
                \/ /\ lru_last'.op = "rewrite"
                   /\ lru_last'.key = Evicted
                   /\ data'[Evicted] = lru_last'.value
             /\ NewEntryStored]_vars

\* C14's case: an insert of a new key has returned, the expire callback
\* having refused the expiry it asked for, and the refused entry is cached
\* next to the new one.
C14_Witness ==
    /\ lru_last.op = "insert"
    /\ lru_last.raised = "none"
    /\ lru_last.refused
    /\ Size(data) = maximum_size + 1
    /\ \E k \in Cached(data) : ItemTimes(heap, k) = {}

----------------------------------------------------------------------------
(* Properties of the client *)

\* The request has a result or an error.
ResultOrErrorSet(r) == r.result # "None" \/ r.error # "None"

\* C15, as claimed: a Request is completed exactly when its result or its
\* error is set.
C15_CompletedIffSet ==
    \A q \in Requests :
        completed(request[q]) <=> ResultOrErrorSet(request[q])

\* C15, as the code has it: a Request is completed exactly when its result
\* or its error is set and its timeout is not pending; and a request with a
\* result or an error whose timeout is still pending is a request without a
\* callback whose worker has returned and which the caller has not finished.
C15_CompletedIffSetAndNotPending ==
    \A q \in Requests :
        /\ completed(request[q])
              <=> (ResultOrErrorSet(request[q])
                      /\ request[q].timeout # "pending")
        /\ (ResultOrErrorSet(request[q]) /\ request[q].timeout = "pending")
              => (~request[q].callback /\ gt[q] = "returned")

\* C15's case: the worker has stored the result of the request the caller
\* waits for, and the timeout has not been cancelled yet.
C15_Witness ==
    \E q \in Requests :
        /\ caller.pc = "wait"
        /\ caller.q = q
        /\ request[q].result = "value"
        /\ request[q].timeout = "pending"
        /\ ~completed(request[q])

\* The Timeout of request q expires in this step.
Expires(q) ==
    /\ request[q].timeout = "pending"
    /\ request'[q].timeout = "fired"

\* C16, as claimed: when the timeout of a request with a callback expires
\* before the agent has answered, the callback is called once, with the
\* request's error TimeoutError, its result None and completed true.
C16_CallbackOnTimeout ==
    [][\A q \in Requests :
          (request[q].callback /\ gt[q] # "returned" /\ Expires(q))
              => called'[q] = << [result |-> "None", error |-> "TimeoutError",
                                  completed |-> TRUE] >>]_vars

\* C16, as the code has it: when the timeout of a request with a callback
\* expires, TimeoutError is raised in the caller, where it waits; the
\* callback is not called, the request's error is not set and its worker
\* goes on.  The callback of a request is called at most once, never with
\* TimeoutError, and with completed true.
C16_TimeoutRaisedInCaller ==
    /\ [](\A q \in Requests :
             /\ Len(called[q]) <= 1
             /\ request[q].error # "TimeoutError"
             /\ \A i \in 1..Len(called[q]) :
                   /\ called[q][i].error # "TimeoutError"
                   /\ called[q][i].completed)
    /\ [][\A q \in Requests :
             (request[q].callback /\ Expires(q))
                 => /\ caller.pc # "ready"
                    /\ caller' = Running("TimeoutError")
                    /\ called'[q] = called[q]
                    /\ request'[q].error = request[q].error
                    /\ request'[q].result = request[q].result
                    /\ gt'[q] = gt[q]]_vars

\* C16's case: the timeout of a request with a callback has expired, the
\* agent not answering: the caller has TimeoutError, the worker still waits
\* and the callback has not been called.
C16_Witness ==
    \E q \in Requests :
        /\ request[q].callback
        /\ request[q].timeout = "fired"
        /\ peer[q] = "silent"
        /\ gt[q] = "running"
        /\ caller = Running("TimeoutError")
        /\ called[q] = << >>

\* The caller waits in exec_request for request q, which has a timeout, and
\* the agent will not answer it.
WaitsForSilentPeer(q) ==
    /\ caller.pc = "wait"
    /\ caller.q = q
    /\ request[q].timeout = "pending"
    /\ peer[q] = "silent"

\* C17: an exec_request without callback of a request with a timeout whose
\* agent never answers ends: TimeoutError is raised in the caller.
C17_SyncTimeoutEnds ==
    \A q \in Requests :
        WaitsForSilentPeer(q) ~> (caller = Running("TimeoutError"))

\* C17's case: exec_request of a request without callback has raised
\* TimeoutError, the agent not having answered; the request has no result
\* and no error.
C17_Witness ==
    \E q \in Requests :
        /\ ~request[q].callback
        /\ request[q].timeout = "fired"
        /\ peer[q] = "silent"
        /\ gt[q] = "running"
        /\ caller = Running("TimeoutError")
        /\ ~ResultOrErrorSet(request[q])

\* Request q was cancelled: its worker ended raising RequestCancelledError
\* before it started, or stored RequestCancelledError as the request's error.
Cancelled(g, r) == g = "raised" \/ r.error = "RequestCancelledError"

----------------------------------------------------------------------------
(* The load-balancing transport *)

\* The selections q are cyclic over the n backends.
Cyclic(q) ==
    \A i, j \in 1..Len(q) :
        /\ (i < j /\ j - i < NumBackends) => q[i] # q[j]
        /\ j = i + NumBackends => q[i] = q[j]

\* C19: with the round-robin policy over n backends, any n consecutive
\* selections, those of one generator of the policy and those of consecutive
\* LoadBalancingTransport.request calls, use n distinct backends, and
\* selection i+n is the backend of selection i.
C19_RoundRobinCyclic ==
    lb.policy = "RoundRobinPolicy" => Cyclic(lb.picked) /\ Cyclic(lb.routed)

\* A step in which LoadBalancingTransport.request selects its backend.
Selects == lb.pending = NoBackend /\ lb'.pending # NoBackend

\* C20: with the lowest-latency policy, once report_response has
\* recorded a round-trip time for every backend the selection is a backend
\* with the smallest recorded time, and until then the selection is random
\* among all the backends.
C20_LowestOnceAllReported ==
    [][Selects =>
          IF lb.reported = Backends
          THEN lb'.choices \subseteq LowestRtt(lb)
          ELSE lb'.choices = Backends]_vars

----------------------------------------------------------------------------
(* The device transport's command *)

\* C21: whenever an expect of the command returns EOF, before the command is
\* sent, while its echo is awaited or while the rest of the response is
\* awaited, the CommandError raised has retry set.
C21_EofIsRetried ==
    (transport.pc = "raised" /\ transport.saw = EOF) => transport.retry

\* A command has ended with EOF at the named place.
EofAt(at) ==
    transport.pc = "raised" /\ transport.saw = EOF /\ transport.at = at

\* EOF has ended a command while the rest of the response was awaited, after
\* a pager prompt was answered.
C21_Witness == EofAt("response") /\ transport.pages > 0 /\ transport.retry

\* C22 as stated: whenever an expect of the command returns TIMEOUT after the
\* command has been written, the CommandError raised has retry unset.
C22_TimeoutAfterSendIsFinal ==
    (transport.pc = "raised" /\ transport.saw = TIMEOUT /\ transport.sent)
        => ~transport.retry

\* C22, amended: a TIMEOUT while the rest of the response is awaited, or
\* before the command is written, leaves retry unset; a TIMEOUT while the
\* echo of the command is awaited sets retry.
C22_OnlyEchoTimeoutIsRetried ==
    (transport.pc = "raised" /\ transport.saw = TIMEOUT)
        => (transport.retry <=> transport.at = "echo")

\* A command has timed out waiting for its echo, and the second command of
\* the transport has timed out waiting for the rest of its response.
C22_Witness ==
    /\ transport.pc = "raised" /\ transport.saw = TIMEOUT
    /\ transport.at = "response" /\ transport.sent /\ ~transport.retry
    /\ transport.commands = MaxCommands

----------------------------------------------------------------------------
(* Device.connect *)

\* A step in which a connect call that has tried an address ends.
ConnectEnds == iosdev.pc = "connecting" /\ iosdev'.pc = "idle"

\* The attempts q stopped at the first success.
FirstSuccessWins(q) == \A k \in 1..(Len(q) - 1) : q[k] # "ok"

\* C23: Device.connect tries the addresses in list order and stops at the
\* first that succeeds; the device becomes connected if and only if an
\* attempt succeeded, and when every attempt failed the error raised is that
\* of the last address tried.
C23_FirstSuccessWins ==
    /\ [](iosdev.pc # "none" => FirstSuccessWins(iosdev.attempts))
    /\ [][ConnectEnds =>
            LET q == iosdev'.attempts
                last == q[Len(q)]
            IN /\ last = "ok" =>
                      iosdev'.connected /\ iosdev'.raised = NoError
               /\ last # "ok" =>
                      /\ iosdev'.connected = iosdev.connected
                      /\ iosdev'.raised.kind # "None"
                      /\ iosdev'.raised.address = Len(q)
               /\ last \in Handled =>
                      /\ Len(q) = iosdev.addresses
                      /\ iosdev'.raised = LastExc(last, Len(q))]_vars

\* The first address failed, the second was tried and the device is
\* connected.
C23_Witness ==
    /\ iosdev.pc = "idle"
    /\ Len(iosdev.attempts) = 2
    /\ iosdev.attempts[1] \in Handled
    /\ iosdev.attempts[2] = "ok"
    /\ iosdev.connected

\* C24 as stated: an attempt that fails with an errno of DONT_RETRY_ERRNO is
\* the last attempt of the call, and the error the call raises is not to be
\* retried.
C24_RefusedStopsTheLoop ==
    iosdev.pc # "none" =>
        \A k \in 1..Len(iosdev.attempts) :
            iosdev.attempts[k] = "refused" =>
                /\ k = Len(iosdev.attempts)
                /\ iosdev.pc = "idle"
                /\ ~iosdev.raised.retry

\* C24, amended: the ConnectError made for an attempt that fails with an
\* errno of DONT_RETRY_ERRNO has retry unset, and the loop goes on to the
\* addresses that remain; the error raised when every attempt has failed is
\* that of the last address, with that address's retry.
C24_RefusedIsFinalForItsAddress ==
    iosdev.pc # "none" =>
        LET q == iosdev.attempts
        IN /\ (q # << >> /\ q[Len(q)] = "refused") =>
                  /\ iosdev.last_exc =
                         [kind |-> "ConnectError", retry |-> FALSE,
                          address |-> Len(q)]
                  /\ Len(q) < iosdev.addresses => iosdev.pc = "connecting"
                  /\ Len(q) = iosdev.addresses =>
                         iosdev.pc = "idle" /\ iosdev.raised = iosdev.last_exc
           /\ (iosdev.pc = "idle" /\ iosdev.raised.kind = "ConnectError") =>
                  /\ iosdev.raised.address = iosdev.addresses
                  /\ iosdev.raised.retry
                         <=> q[iosdev.addresses] \in {"reset", "EOF"}

\* The first address refused the connection, the second was tried, and the
\* error raised is the second's, which is to be retried.
C24_Witness ==
    /\ iosdev.pc = "idle"
    /\ Len(iosdev.attempts) = 2
    /\ iosdev.attempts[1] = "refused"
    /\ iosdev.raised.kind = "ConnectError"
    /\ iosdev.raised.address = 2
    /\ iosdev.raised.retry

\* C29 as stated: on every connect call the method used is the requested one
\* when the driver has it and the driver's default otherwise, whatever method
\* earlier calls used.
C29_MethodIndependentOfEarlierCalls ==
    iosdev.pc = "connecting" =>
        iosdev.connect_method =
            IF iosdev.requested \in connect_methods THEN iosdev.requested
            ELSE DEFAULT_CONNECT_METHOD

\* C29, amended: the method used is the requested one when the driver has
\* it; otherwise it is the method the device object already has from an
\* earlier connect, and the driver's default only when it has none.
C29_MethodKeptFromEarlierCalls ==
    iosdev.pc = "connecting" =>
        /\ iosdev.requested \in connect_methods =>
               iosdev.connect_method = iosdev.requested
        /\ (iosdev.requested \notin connect_methods
                /\ iosdev.before # NoMethod) =>
               iosdev.connect_method = iosdev.before
        /\ (iosdev.requested \notin connect_methods
                /\ iosdev.before = NoMethod) =>
               iosdev.connect_method = DEFAULT_CONNECT_METHOD

\* A second connect asks for no method after a first that used telnet, and
\* uses telnet.
C29_Witness ==
    /\ iosdev.pc = "connecting"
    /\ iosdev.connects = 2
    /\ iosdev.requested = NoMethod
    /\ iosdev.before = "telnet"
    /\ iosdev.connect_method = "telnet"

----------------------------------------------------------------------------
(* The enable dialogue *)

\* C30: in the loop of _enable a first timeout does not end the dialogue,
\* and a second ends it with EnableError: EnableError for a timeout is raised
\* at the second timeout only, and after two timeouts the dialogue has ended
\* with it.
C30_EnableRetriedOnce ==
    login.pc # "none" =>
        /\ (login.pc = "raised" /\ login.raised = "EnableError"
                /\ login.timeouts > 0 /\ login.turns > 0) =>
               login.timeouts = 2
        /\ login.timeouts >= 2 =>
               login.pc = "raised" /\ login.raised = "EnableError"

----------------------------------------------------------------------------
(* Controller.request *)

\* Controller.request has raised before it had a session.
RefusedRequest(name) ==
    /\ controller.pc = "idle"
    /\ controller'.pc = "idle"
    /\ controller'.device_name = name
    /\ controller'.raised # "None"
    /\ lru_now' = lru_now

\* C25: a Controller.request without a device_name raises NoSuchDeviceError,
\* makes no session and does no device I/O.
C25_NoNameIsNoSuchDevice ==
    [][RefusedRequest(NoName) =>
          /\ controller'.raised = "NoSuchDeviceError"
          /\ ~controller'.io
          /\ data' = data /\ heap' = heap]_vars

----------------------------------------------------------------------------
(* The credentials store *)

\* The places in the list of the credentials whose anchored regular
\* expression matches the hostname of the last lookup.
Matching ==
    { i \in 1..Len(creds.credentials) :
          Match(creds.credentials[i].regexp, creds.hostname.str, TRUE) }

----------------------------------------------------------------------------
(* The error table *)

\* C28: every ApiError the agent raises while it serves a request is sent
\* as its code of the error table, and the client names it as that same
\* error; the client says Unknown only for a code outside the table.
C28_ErrorsRoundTrip ==
    rpc.pc = "error" =>
        /\ rpc.exc \in DOMAIN error_dictionary
        /\ rpc.code = error_dictionary[rpc.exc]
        /\ rpc.err_name = rpc.exc

----------------------------------------------------------------------------
(* The pager *)

\* The texts before the pager matches of the command that returned, and the
\* text before its prompt.
PagedTexts == SubSeq(transport.seen, 1, Len(transport.seen) - 1)
FinalText == transport.seen[Len(transport.seen)]

----------------------------------------------------------------------------
(* The sweeper *)

\* C32: every run of the idle sweeper ends with the next run scheduled, also
\* a run in which the disconnect of the session raises.
C32_SweeperReschedules ==
    [][sweeper = "disconnecting" =>
           sweeper' \in {"disconnecting", "scheduled"}]_vars

----------------------------------------------------------------------------
(* The pool of the client *)

\* The requests in flight.
InFlight33(p) == { w \in Workers : p.gt[w] = "running" }

\* A request ends in this step with 'too many open files'.
FailsWithEmfile ==
    /\ pool.pc = "open"
    /\ \E w \in Workers :
           /\ pool.gt[w] = "running"
           /\ pool'.gt[w] = "none"
           /\ pool'.ended[w] = "EMFILE"

\* C33: when a request fails with errno 24, max_concurrency and the size of
\* the pool become the number of requests in flight at that moment, the
\* failed one not counted, and no other step changes them.
C33_PoolShrinksToInFlight ==
    [][/\ FailsWithEmfile =>
              /\ pool'.max_concurrency = Cardinality(InFlight33(pool'))
              /\ pool'.size = Cardinality(InFlight33(pool'))
       /\ (pool.pc = "open" /\ ~ FailsWithEmfile) =>
              /\ pool'.max_concurrency = pool.max_concurrency
              /\ pool'.size = pool.size]_vars

\* The pool was shrunk to the one request in flight, which ended; another
\* request is in flight and the pool has kept that size.
C33_Witness ==
    /\ pool.pc = "open"
    /\ pool.size = 1
    /\ pool.max_concurrency = 1
    /\ \E w, x \in Workers :
           /\ pool.ended[w] = "EMFILE"
           /\ pool.ended[x] = "result"
    /\ Cardinality(InFlight33(pool)) = 1

----------------------------------------------------------------------------
(* C34 *)

\* C34: in the LruDict with a dirty flag, the first read of a key that was
\* cached before a callback was replaced returns the value the populate
\* callback then installed produces for the key, not the cached value.
C34_ChangeInvalidatesEveryEntry ==
    dirtylru.pc = "open" /\ dirtylru.ret.stale
        => dirtylru.ret.value
               = DirtyValue(dirtylru.ret.populate, dirtylru.ret.key)

\* The first read after a change, as in testLruChangePopulateCallback: the
\* key read is repopulated by the new callback.
C34_FirstReadIsFresh ==
    /\ dirtylru.pc = "open"
    /\ dirtylru.ret.stale
    /\ dirtylru.ret.value = DirtyValue("callback2", dirtylru.ret.key)
    /\ "callback2" = dirtylru.ret.populate

----------------------------------------------------------------------------
(* C35 *)

\* How a request ends with an error after it took the lock.
RequestErrors ==
    {"InvalidRequestError", "InvalidDeviceError", "NoMatchingCredentialError",
     "ConnectError", "AuthenticationError", "CommandError",
     "CommandErrorRetry", "DownloadError", "Error", "Exception"}

----------------------------------------------------------------------------
(* C36 *)

\* C36: when Session.request has ended by raising an error whose
\* disconnect_on_error is set, from the first or from the retried
\* invocation, the session is disconnected.
C36_ErrorLeavesDisconnected ==
    \A t \in Tasks :
        (/\ pc[t] = "ready"
         /\ loc[t].op = "request"
         /\ disconnect_on_error(outcome[t]))
            => ~session.connected

\* The first invocation's case: a CommandError without retry, after whose
\* disconnect the session is disconnected.
C36_FirstAttemptDisconnects ==
    \E t \in Tasks :
        /\ pc[t] = "ready"
        /\ loc[t].op = "request"
        /\ outcome[t] = "CommandError"
        /\ calls[t] = << "invoke", "device.disconnect" >>
        /\ ~session.connected

----------------------------------------------------------------------------
(* C37 *)

\* C37: the session cache's expire callback and Controller.stop disconnect
\* a session only when no Session.request holds that session's lock.
C37_NoDisconnectInFlight ==
    serving.pc = "running" => ~serving.cut.busy

----------------------------------------------------------------------------
(* C38 *)

\* Thread t has a Session from get_session and uses it.
UsesSession(t) == serving.th[t].pc \in {"session", "in_request"}

\* C38: the threads that use a session for one key use the same Session
\* object, so that two commands for one key never run at the same time on
\* different Session objects.
C38_OneSessionPerKey ==
    serving.pc = "running" =>
        \A t1, t2 \in Threads :
            (/\ UsesSession(t1)
             /\ UsesSession(t2)
             /\ serving.th[t1].key = serving.th[t2].key)
                => serving.th[t1].obj = serving.th[t2].obj

\* Two commands for one key run at the same time on two Session objects.
C38_TwoCommandsOneKey ==
    /\ serving.pc = "running"
    /\ \E t1, t2 \in Threads :
           /\ serving.th[t1].pc = "in_request"
           /\ serving.th[t2].pc = "in_request"
           /\ serving.th[t1].key = serving.th[t2].key
           /\ serving.th[t1].obj # serving.th[t2].obj

----------------------------------------------------------------------------
(* C39 *)

\* The heap items that carry key k.
HeapItemsOf(k) == { i \in 1..Len(heap) : heap[i].key = k }

\* C39: after every LruDict operation the heap and the data map hold the
\* same keys, with exactly one heap item for each cached key and none for a
\* key that is not cached.
C39_HeapMatchesData ==
    \A k \in Keys :
        Cardinality(HeapItemsOf(k)) = IF data[k] # Absent THEN 1 ELSE 0

\* A cached key that no heap item carries: no eviction will reach it.
C39_CachedKeyNotEvictable ==
    \E k \in Keys : data[k] # Absent /\ HeapItemsOf(k) = {}

\* A key that two heap items carry.
C39_TwoHeapItems ==
    \E k \in Keys : Cardinality(HeapItemsOf(k)) > 1

\* A heap item whose key is not cached: an eviction that targets it frees
\* no entry.
C39_HeapItemOfAbsentKey ==
    \E k \in Keys : data[k] = Absent /\ HeapItemsOf(k) # {}

----------------------------------------------------------------------------
(* C40 *)

\* The Timeout of request q expires in this step.
TimerExpires(q) == request[q].timeout = "pending" /\ request'[q].timeout = "fired"

\* C40: the expiry of a request's timeout ends no wait but the wait for
\* that request, and a request that has been cancelled has no armed timer.
C40_TimeoutAffectsOnlyItsRequest ==
    [][/\ \A q \in Requests :
              TimerExpires(q) /\ caller.pc = "wait" => caller.q = q
       /\ \A q \in Requests :
              gt'[q] = "raised" => request'[q].timeout # "pending"]_vars

\* The caller's exec_request of a request without a timeout was ended by
\* the TimeoutError of another request's timer.
C40_OtherRequestTimedOut ==
    /\ caller.raised = "TimeoutError"
    /\ \E q1, q2 \in Requests :
           /\ q1 # q2
           /\ request[q1].timeout = "fired"
           /\ request[q1].callback
           /\ ~request[q2].callback
           /\ ~request[q2].timeout_s
           /\ gt[q2] = "running"

\* A request cancelled by kill_all before its worker started keeps its
\* timer armed.
C40_CancelledStillArmed ==
    \E q \in Requests : gt[q] = "raised" /\ request[q].timeout = "pending"

====
